---- MODULE Spec2Model ----
(***************************************************************************)
(* Model of hebcal-shabbat-email: the anniversary reminder engine          *)
(* (src/src/yahrzeit_email.ts) and the weekly digest dispatcher            *)
(* (src/src/shabbat_weekly.ts).                                            *)
(*                                                                         *)
(* Conventions.  A JavaScript string is a sequence of one-character        *)
(* strings; a JSON value is a record [t |-> "str", v |-> chars],           *)
(* [t |-> "num", v |-> n] or Undefined.  A calendar date is a day number;  *)
(* the Gregorian and Hebrew calendars of the external libraries are small  *)
(* regular calendars over day numbers.  The clock counts whole days; an    *)
(* instant is a day and whether it is that day's midnight: dayjs(argv.date)*)
(* is a midnight when --date is given and the current time otherwise.      *)
(***************************************************************************)
EXTENDS Integers, Sequences, FiniteSets, TLC

(***************************************************************************)
(* Bounds of the model                                                     *)
(***************************************************************************)
\* number of single-day ticks of the wall clock
MaxTicks == 2
\* number of faults (an exception, a failed query, a kill) in one behaviour
MaxFaults == 1
\* number of lines in the sent logs up to which a run with --force starts
MaxLogLines == 2

(***************************************************************************)
(* JavaScript values                                                       *)
(***************************************************************************)
Undefined == [t |-> "undef"]
Str(chars) == [t |-> "str", v |-> chars]

\* query[k] of a plain object: undefined for a missing key
Get(query, k) == IF k \in DOMAIN query THEN query[k] ELSE Undefined

\* key of a per-slot field, e.g. Key("y", 3) is "y3"
Key(k0, n) == <<k0, n>>

Digits == <<"0", "1", "2", "3", "4", "5", "6", "7", "8", "9">>
IsDigit(c) == \E i \in 1..10 : Digits[i] = c

\* NaN of parseInt
NaN == -1

\* value of a non-empty sequence of digits
RECURSIVE DigitsVal(_)
DigitsVal(s) ==
    IF s = <<>> THEN 0
    ELSE DigitsVal(SubSeq(s, 1, Len(s) - 1)) * 10
           + (CHOOSE i \in 1..10 : Digits[i] = s[Len(s)]) - 1

\* longest prefix of s made of digits
RECURSIVE DigitPrefix(_)
DigitPrefix(s) ==
    IF s = <<>> \/ ~IsDigit(Head(s)) THEN <<>>
    ELSE <<Head(s)>> \o DigitPrefix(Tail(s))

\* parseInt(s, 10) of a string without sign or leading blanks
parseInt(s) ==
    IF DigitPrefix(s) = <<>> THEN NaN ELSE DigitsVal(DigitPrefix(s))

\* two-digit, zero-padded rendering of n < 100
Pad2(n) == <<Digits[(n \div 10) + 1], Digits[(n % 10) + 1]>>

(***************************************************************************)
(* Calendars (external collaborators)                                      *)
(***************************************************************************)
DaysPerWeek == 7
\* the model's Gregorian calendar: regular months, day 0 is BaseYear-01-01
DaysPerMonth == 7
MonthsPerYear == 2
BaseYear == 2020
\* the model's Hebrew calendar: regular years whose last month is Elul
HebYearLen == 14
ElulLen == 7

\* new Date(year, month - 1, mday): out-of-range fields roll over
DateOf(year, month, mday) ==
    ((year - BaseYear) * MonthsPerYear + (month - 1)) * DaysPerMonth + (mday - 1)

\* day.format('YYYY-MM-DD')
FormatDate(day) ==
    LET m0 == day \div DaysPerMonth
        year == BaseYear + (m0 \div MonthsPerYear)
    IN  Pad2(year \div 100) \o Pad2(year % 100) \o <<"-">>
          \o Pad2((m0 % MonthsPerYear) + 1) \o <<"-">>
          \o Pad2((day % DaysPerMonth) + 1)

\* today.day(): 0 is Sunday, 6 is Saturday
DayOfWeek(day) == day % DaysPerWeek

\* new HDate(date).getFullYear()
HebYear(day) == day \div HebYearLen

\* number of days on which the gate of the weekly digest is examined, and
\* the first of them, a Sunday
MaxGateDays == 56
FirstGateDay == 5 * DaysPerWeek

\* the holidays of the days the gate is examined on: a pattern of eight days
\* in which every run of three days with and without a holiday occurs, so
\* that over eight weeks every weekday meets every such run
ChagPattern == <<FALSE, FALSE, FALSE, TRUE, FALSE, TRUE, TRUE, TRUE>>

\* getChagOnDate finds a major holiday on the second day of Hebrew year 1
\* and on the days of the pattern
getChagOnDate(day) ==
    \/ day = HebYearLen + 1
    \/ /\ day \in FirstGateDay..(FirstGateDay + MaxGateDays + 2)
       /\ ChagPattern[(day % Len(ChagPattern)) + 1]

NoDate == -1
\* getYahrzeitHD / getBirthdayHD followed by greg(): the observed date of the
\* anniversary of origDt in Hebrew year hyear, or NoDate when hyear is not
\* after the year of origDt
ObservedDate(type, hyear, origDt) ==
    IF hyear <= HebYear(origDt) THEN NoDate
    ELSE hyear * HebYearLen + (origDt % HebYearLen)

\* murmur32HexSync: a hash of its input, taken to be free of collisions
murmur32HexSync(s) == <<"murmur32">> \o s

(***************************************************************************)
(* Subscription Loader (yahrzeit_email.ts)                                 *)
(***************************************************************************)
empty(val) == val.t # "str" \/ val.v = <<>>

\* maximum over the keys y<n> and x<n> with a non-empty value (and, for y<n>,
\* non-empty d<n> and m<n>)
getMaxYahrzeitId(query) ==
    LET IdOf(k) ==
            IF empty(query[k]) THEN 0
            ELSE IF k[1] = "y"
                    /\ (empty(Get(query, Key("d", k[2])))
                        \/ empty(Get(query, Key("m", k[2]))))
                 THEN 0
                 ELSE k[2]
        ids == {IdOf(k) : k \in {kk \in DOMAIN query : kk[1] \in {"y", "x"}}}
    IN  IF ids = {} THEN 0 ELSE CHOOSE i \in ids : \A j \in ids : j <= i

getAnniversaryType(str) ==
    IF str.t = "str" /\ str.v # <<>>
    THEN CASE str.v[1] \in {"y", "Y"} -> "Yahrzeit"
           [] str.v[1] \in {"b", "B"} -> "Birthday"
           [] str.v[1] \in {"a", "A"} -> "Anniversary"
           [] str.v[1] \in {"o", "O"} -> "Other"
           [] OTHER -> "Yahrzeit"
    ELSE "Yahrzeit"

\* strip one leading zero of a two-character field
StripZero(g) == IF g[1] = "0" THEN <<g[2]>> ELSE g

\* getDateForId reading the packed date as year, day, month
getDateForIdDayFirst(query, id) ==
    LET date == Get(query, Key("x", id))
    IN  IF date.t = "str" /\ Len(date.v) = 10
        THEN [yy |-> Str(SubSeq(date.v, 1, 4)),
              mm |-> Str(StripZero(SubSeq(date.v, 9, 10))),
              dd |-> Str(StripZero(SubSeq(date.v, 6, 7)))]
        ELSE [yy |-> Get(query, Key("y", id)),
              mm |-> Get(query, Key("m", id)),
              dd |-> Get(query, Key("d", id))]

getDateForId(query, id) ==
    LET date == Get(query, Key("x", id))
    IN  IF date.t = "str" /\ Len(date.v) = 10
        THEN [yy |-> Str(SubSeq(date.v, 1, 4)),
              mm |-> Str(StripZero(SubSeq(date.v, 6, 7))),
              dd |-> Str(StripZero(SubSeq(date.v, 9, 10)))]
        ELSE [yy |-> Get(query, Key("y", id)),
              mm |-> Get(query, Key("m", id)),
              dd |-> Get(query, Key("d", id))]

Null == [t |-> "null"]

\* getYahrzeitDetailForId taking 1 for a component that is missing, empty
\* or not a number (`parseInt(dd, 10) || 1`) in place of returning null
getYahrzeitDetailForIdDefaulting(query, num) ==
    LET ymd == getDateForId(query, num)
        Or1(val) == IF empty(val) THEN 1
                    ELSE IF parseInt(val.v) <= 0 THEN 1 ELSE parseInt(val.v)
        type == getAnniversaryType(Get(query, Key("t", num)))
        day == DateOf(Or1(ymd.yy), Or1(ymd.mm), Or1(ymd.dd))
    IN  [t |-> "sub", num |-> num, type |-> type, day |-> day,
         hash |-> murmur32HexSync(FormatDate(day))]

getYahrzeitDetailForId(query, num) ==
    LET ymd == getDateForId(query, num)
    IN  IF empty(ymd.dd) \/ empty(ymd.mm) \/ empty(ymd.yy) THEN Null
        ELSE
          LET year == parseInt(ymd.yy.v)
              month == parseInt(ymd.mm.v)
              mday == parseInt(ymd.dd.v)
          IN  IF mday <= 0 \/ month <= 0 \/ year <= 0 THEN Null
              ELSE
                LET type == getAnniversaryType(Get(query, Key("t", num)))
                    sunset == Get(query, Key("s", num))
                    day0 == DateOf(year, month, mday)
                    day == IF \/ sunset.t = "str" /\ sunset.v \in {<<"o", "n">>, <<"1">>}
                              \/ sunset.t = "num" /\ sunset.v = 1
                           THEN day0 + 1 ELSE day0
                    \* the type, by its first letter
                    chars == CASE type = "Yahrzeit" -> <<"Y">>
                               [] type = "Birthday" -> <<"B">>
                               [] type = "Anniversary" -> <<"A">>
                               [] OTHER -> <<"O">>
                    hash == murmur32HexSync(FormatDate(day) \o <<"-">> \o chars)
                IN  [t |-> "sub", num |-> num, type |-> type, day |-> day,
                     hash |-> hash]

(***************************************************************************)
(* Stored tables                                                           *)
(***************************************************************************)
\* rows of "yahrzeit_email e, yahrzeit y" joined on e.calendar_id = y.id
\*   a, slot 1: 2020-01-01 as separate fields, Yahrzeit
\*   a, slot 2: 2020-01-02 packed, Birthday, after sunset
\*   b, slot 1: 2020-01-01 packed, Yahrzeit; slot 2 has a blank day
\*   c is not active
\* typeof_contents is what the driver made of the stored payload y.contents:
\* "object" for a parsed JSON object, else "null" or "string"
InitialRows ==
    << [id |-> "a", email_addr |-> "a@example.com", calendar_id |-> "calA",
        sub_status |-> "active", typeof_contents |-> "object",
        contents |->
          (Key("y", 1) :> Str(<<"2", "0", "2", "0">>)) @@
          (Key("m", 1) :> Str(<<"1">>)) @@
          (Key("d", 1) :> Str(<<"1">>)) @@
          (Key("t", 1) :> Str(<<"Y", "a", "h", "r", "z", "e", "i", "t">>)) @@
          (Key("n", 1) :> Str(<<"R">>)) @@
          (Key("x", 2) :> Str(<<"2", "0", "2", "0", "-", "0", "1", "-", "0", "2">>)) @@
          (Key("t", 2) :> Str(<<"B", "i", "r", "t", "h", "d", "a", "y">>)) @@
          (Key("s", 2) :> Str(<<"o", "n">>))],
       [id |-> "b", email_addr |-> "b@example.com", calendar_id |-> "calB",
        sub_status |-> "active", typeof_contents |-> "object",
        contents |->
          (Key("x", 1) :> Str(<<"2", "0", "2", "0", "-", "0", "1", "-", "0", "1">>)) @@
          (Key("t", 1) :> Str(<<"y">>)) @@
          (Key("y", 2) :> Str(<<"1", "9", "9", "0">>)) @@
          (Key("m", 2) :> Str(<<"5">>)) @@
          (Key("d", 2) :> Str(<<>>))],
       [id |-> "c", email_addr |-> "c@example.com", calendar_id |-> "calC",
        sub_status |-> "unsubscribed", typeof_contents |-> "object",
        contents |->
          (Key("x", 1) :> Str(<<"2", "0", "2", "0", "-", "0", "1", "-", "0", "1">>))] >>

\* SQL NULL of a name_hash column
SqlNull == <<"NULL">>

\* a row of yahrzeit_optout
OptOutRow(id, num, hash) ==
    [email_id |-> id, num |-> num, name_hash |-> hash, deactivated |-> 1]

\* a row of yahrzeit_sent7 / yahrzeit_sent1
SentRow(id, hash, num, hyear, date) ==
    [yahrzeit_id |-> id, name_hash |-> hash, num |-> num, hyear |-> hyear,
     sent_date |-> date]

\* first day of the wall clock: two days before Hebrew year 1 begins
StartDay == HebYearLen - 2

\* rows older than this many days are not loaded from a ledger
RetentionDays == 365


(***************************************************************************)
(* Eligibility Filter (yahrzeit_email.ts)                                  *)
(***************************************************************************)
\* loadOptOut without the name_hash of the rows
loadOptOutBySlot(table) ==
    { <<r.email_id, r.num>> : r \in {x \in table : x.deactivated = 1} }

\* loadOptOut: keys "<email_id>.<num>" and "<email_id>.<num>.<name_hash>" of
\* the rows with deactivated = 1; each row carries its timestamp `updated`,
\* the value of its key in the map
loadOptOut(table) ==
    { IF r.name_hash = SqlNull THEN <<r.email_id, r.num>>
      ELSE <<r.email_id, r.num, r.name_hash>> :
      r \in {x \in table : x.deactivated = 1} }

\* loadRecentSent with a retention period of one day
loadRecentSentOneDay(table, clock) ==
    { IF table[k].name_hash = SqlNull
      THEN <<table[k].yahrzeit_id, table[k].num, table[k].hyear>>
      ELSE <<table[k].yahrzeit_id, table[k].num, table[k].hyear, table[k].name_hash>> :
      k \in {j \in DOMAIN table : clock - table[j].sent_date < 1} }

\* loadRecentSent loading only the rows without name_hash
loadRecentSentKeyless(table, clock) ==
    { <<table[k].yahrzeit_id, table[k].num, table[k].hyear>> :
      k \in {j \in DOMAIN table : /\ clock - table[j].sent_date < RetentionDays
                                   /\ table[j].name_hash = SqlNull} }

\* loadRecentSent: keys "<yahrzeit_id>.<num>.<hyear>" and, for a row with
\* name_hash, "<yahrzeit_id>.<num>.<hyear>.<name_hash>"
loadRecentSent(table, clock) ==
    { IF table[k].name_hash = SqlNull
      THEN <<table[k].yahrzeit_id, table[k].num, table[k].hyear>>
      ELSE <<table[k].yahrzeit_id, table[k].num, table[k].hyear, table[k].name_hash>> :
      k \in {j \in DOMAIN table : clock - table[j].sent_date < RetentionDays} }

\* skipOptOut consulting only the key with the hash
skipOptOutKeyedOnly(subscriptionId, info, optout) ==
    <<subscriptionId, info.num, info.hash>> \in optout

skipOptOut(subscriptionId, info, optout) ==
    \/ <<subscriptionId, info.num>> \in optout
    \/ <<subscriptionId, info.num, info.hash>> \in optout

False == [t |-> "false"]

\* observed.diff(today, 'd'): the time from today to the midnight of the
\* observed date in days, truncated toward zero
diff(observed, today) ==
    IF observed > today.day /\ ~today.midnight THEN observed - today.day - 1
    ELSE observed - today.day

\* computeAnniversary: the observed date and its distance from today
computeAnniversary(info0, hyear, today) ==
    LET observed == ObservedDate(info0.type, hyear, info0.day)
    IN  [observed |-> observed,
         diff |-> IF observed = NoDate THEN NoDate ELSE diff(observed, today)]

\* the ledger test with keys that leave the number of the entry out
AlreadySentAnySlot(id, num, hyear, hash, sent) ==
    \E k \in sent : k[1] = id /\ k[3] = hyear /\ (Len(k) = 4 => k[4] = hash)

\* the ledger test looking up the key with the hash only
AlreadySentKeyedOnly(id, num, hyear, hash, sent) ==
    <<id, num, hyear, hash>> \in sent

\* the ledger test at the head of makeSubInfo
AlreadySent(id, num, hyear, hash, sent) ==
    \/ <<id, num, hyear>> \in sent
    \/ <<id, num, hyear, hash>> \in sent

\* the window test with the far edge included
InWindowInclusive(ann, maxDays) ==
    ann.observed # NoDate /\ ann.diff >= 0 /\ ann.diff <= maxDays

\* the window test of makeSubInfo
InWindow(ann, maxDays) ==
    ann.observed # NoDate /\ ann.diff >= 0 /\ ann.diff < maxDays

\* makeSubInfo giving the candidate a hash of its own for every Hebrew year
makeSubInfoKeyPerYear(row, num, info0, hyear, sent, maxDays, today) ==
    IF AlreadySent(row.id, num, hyear, info0.hash, sent) THEN False
    ELSE
      LET ann == computeAnniversary(info0, hyear, today)
      IN  IF InWindow(ann, maxDays)
          THEN [t |-> "info", id |-> row.id, num |-> num, hyear |-> hyear,
                hash |-> murmur32HexSync(info0.hash \o FormatDate(hyear)),
                type |-> info0.type, day |-> info0.day,
                calendarId |-> row.calendar_id, emailAddress |-> row.email_addr,
                reminderDays |-> maxDays, observed |-> ann.observed,
                diff |-> ann.diff]
          ELSE False

makeSubInfo(row, num, info0, hyear, sent, maxDays, today) ==
    IF AlreadySent(row.id, num, hyear, info0.hash, sent) THEN False
    ELSE
      LET ann == computeAnniversary(info0, hyear, today)
      IN  IF InWindow(ann, maxDays)
          THEN [t |-> "info", id |-> row.id, num |-> num, hyear |-> hyear,
                hash |-> info0.hash, type |-> info0.type, day |-> info0.day,
                calendarId |-> row.calendar_id, emailAddress |-> row.email_addr,
                reminderDays |-> maxDays, observed |-> ann.observed,
                diff |-> ann.diff]
          ELSE False

\* the lookahead windows in the order loadSubsFromDb tries them
Windows == <<7, 1>>

\* the Hebrew years examined with the next year added on the last day of the
\* year only
HebYearsLastDayOnly(today) ==
    IF (today % HebYearLen) = HebYearLen - 1
    THEN <<HebYear(today), HebYear(today) + 1>>
    ELSE <<HebYear(today)>>

\* the Hebrew years examined without the test for Elul
HebYearsCurrentOnly(today) ==
    <<HebYear(today)>>

\* the Hebrew years loadSubsFromDb examines: that of today and, when
\* htoday.getMonth() === months.ELUL, the one after it
HebYears(today) ==
    IF (today % HebYearLen) >= HebYearLen - ElulLen
    THEN <<HebYear(today), HebYear(today) + 1>>
    ELSE <<HebYear(today)>>

\* inner loop over the windows from index w on: the first window that yields
\* a SubInfo ends the loop
\* the loop over the windows without its break
RECURSIVE WindowLoopNoBreak(_, _, _, _, _, _, _, _)
WindowLoopNoBreak(row, num, info0, hyear, sent7, sent1, today, w) ==
    IF w > Len(Windows) THEN <<>>
    ELSE
      LET ndays == Windows[w]
          sent == IF ndays = 7 THEN sent7 ELSE sent1
          info == makeSubInfo(row, num, info0, hyear, sent, ndays, today)
      IN  (IF info.t = "info" THEN <<info>> ELSE <<>>)
            \o WindowLoopNoBreak(row, num, info0, hyear, sent7, sent1, today, w + 1)

RECURSIVE WindowLoop(_, _, _, _, _, _, _, _)
WindowLoop(row, num, info0, hyear, sent7, sent1, today, w) ==
    IF w > Len(Windows) THEN <<>>
    ELSE
      LET ndays == Windows[w]
          sent == IF ndays = 7 THEN sent7 ELSE sent1
          info == makeSubInfo(row, num, info0, hyear, sent, ndays, today)
      IN  IF info.t = "info" THEN <<info>>
          ELSE WindowLoop(row, num, info0, hyear, sent7, sent1, today, w + 1)

RECURSIVE YearLoop(_, _, _, _, _, _, _)
YearLoop(row, num, info0, hyears, sent7, sent1, today) ==
    IF hyears = <<>> THEN <<>>
    ELSE WindowLoop(row, num, info0, Head(hyears), sent7, sent1, today, 1)
           \o YearLoop(row, num, info0, Tail(hyears), sent7, sent1, today)

RECURSIVE SlotLoop(_, _, _, _, _, _, _)
SlotLoop(row, num, maxId, optout, sent7, sent1, today) ==
    IF num > maxId THEN <<>>
    ELSE
      LET info0 == getYahrzeitDetailForId(row.contents, num)
          here == IF info0.t = "null" THEN <<>>
                  ELSE IF skipOptOut(row.id, info0, optout) THEN <<>>
                  ELSE YearLoop(row, num, info0, HebYears(today.day), sent7, sent1, today)
      IN  here \o SlotLoop(row, num + 1, maxId, optout, sent7, sent1, today)

\* loadSubsFromDb without its test of the key "<id>.0"
RECURSIVE loadSubsFromDbAnySubscription(_, _, _, _, _)
loadSubsFromDbAnySubscription(rows, optout, sent7, sent1, today) ==
    IF rows = <<>> THEN <<>>
    ELSE SlotLoop(Head(rows), 1, getMaxYahrzeitId(Head(rows).contents), optout,
                  sent7, sent1, today)
           \o loadSubsFromDbAnySubscription(Tail(rows), optout, sent7, sent1, today)

RECURSIVE loadSubsFromDb(_, _, _, _, _)
loadSubsFromDb(rows, optout, sent7, sent1, today) ==
    IF rows = <<>> THEN <<>>
    ELSE
      LET row == Head(rows)
          here == IF <<row.id, 0>> \in optout THEN <<>>
                  ELSE SlotLoop(row, 1, getMaxYahrzeitId(row.contents), optout,
                                sent7, sent1, today)
      IN  here \o loadSubsFromDb(Tail(rows), optout, sent7, sent1, today)

\* the occurrence identity of a candidate and of a ledger row
Identity(info) == <<info.id, info.num, info.hyear, info.hash>>
RowIdentity(r) == <<r.yahrzeit_id, r.num, r.hyear, r.name_hash>>

(***************************************************************************)
(* Weekly digest: the pure parts of shabbat_weekly.ts and common.ts        *)
(***************************************************************************)
\* shouldSendEmailToday with a Tuesday rule that looks at Thursday only
shouldSendEmailTodayThursdayOnly(t) ==
    IF getChagOnDate(t) THEN FALSE
    ELSE IF DayOfWeek(t) = 4 THEN TRUE
    ELSE IF DayOfWeek(t) = 3 THEN getChagOnDate(t + 1)
    ELSE IF DayOfWeek(t) = 2 THEN getChagOnDate(t + 2)
    ELSE FALSE

\* shouldSendEmailToday with a Wednesday rule that does not look at Thursday
shouldSendEmailTodayWednesdayToo(t) ==
    IF getChagOnDate(t) THEN FALSE
    ELSE IF DayOfWeek(t) = 4 THEN TRUE
    ELSE IF DayOfWeek(t) = 3 THEN TRUE
    ELSE IF DayOfWeek(t) = 2 THEN getChagOnDate(t + 1) /\ getChagOnDate(t + 2)
    ELSE FALSE

\* shouldSendEmailToday: not on a holiday; on Thursday, or on the Wednesday
\* or Tuesday before when the days up to Thursday are holidays
shouldSendEmailToday(t) ==
    IF getChagOnDate(t) THEN FALSE
    ELSE IF DayOfWeek(t) = 4 THEN TRUE
    ELSE IF DayOfWeek(t) = 3 THEN getChagOnDate(t + 1)
    ELSE IF DayOfWeek(t) = 2 THEN getChagOnDate(t + 1) /\ getChagOnDate(t + 2)
    ELSE FALSE

\* main: friday = TODAY0.add(5 - dow, 'day'), the day in the name of the
\* sent log
Friday(t) == t + (5 - DayOfWeek(t))

\* decimal rendering of a number n >= 0
RECURSIVE NumStr(_)
NumStr(n) ==
    IF n < 10 THEN <<Digits[n + 1]>>
    ELSE NumStr(n \div 10) \o <<Digits[(n % 10) + 1]>>

\* s.indexOf(c), counted from 0, -1 when c is not in s
IndexOf(s, c) ==
    IF \E i \in DOMAIN s : s[i] = c
    THEN (CHOOSE i \in DOMAIN s : s[i] = c /\ \A j \in 1..(i - 1) : s[j] # c) - 1
    ELSE 0 - 1

\* s.substring(a, b): arguments below 0 count as 0, above the length as the
\* length, and the smaller one is the start
substring(s, a, b) ==
    LET clamp(x) == IF x < 0 THEN 0 ELSE IF x > Len(s) THEN Len(s) ELSE x
        lo == IF clamp(a) < clamp(b) THEN clamp(a) ELSE clamp(b)
        hi == IF clamp(a) < clamp(b) THEN clamp(b) ELSE clamp(a)
    IN  SubSeq(s, lo + 1, hi)

\* s.split(sep): the fields of s between the separators
RECURSIVE split(_, _)
split(s, sep) ==
    IF IndexOf(s, sep) < 0 THEN <<s>>
    ELSE <<SubSeq(s, 1, IndexOf(s, sep))>>
           \o split(SubSeq(s, IndexOf(s, sep) + 2, Len(s)), sep)

\* the unary plus of loadSentLog on a field of a line: NaN for a missing
\* field or one that is not a number, 0 for the empty field
MissingField == <<"undefined">>
ToNumber(field) ==
    IF field = MissingField THEN NaN
    ELSE IF field = <<>> THEN 0
    ELSE IF \A i \in DOMAIN field : IsDigit(field[i]) THEN DigitsVal(field)
    ELSE NaN

\* loadSentLog taking the fourth field of a line, the location, for the
\* address
loadSentLogOfLocations(files, name) ==
    IF name \notin DOMAIN files THEN {}
    ELSE LET lines == files[name] \o << <<>> >>
             field(k, n) == IF Len(split(lines[k], ":")) >= n
                            THEN split(lines[k], ":")[n] ELSE MissingField
         IN  { field(k, 4) : k \in {j \in DOMAIN lines :
                   /\ ToNumber(field(j, 2)) # NaN
                   /\ ToNumber(field(j, 2)) # 0
                   /\ field(j, 4) # MissingField
                   /\ field(j, 4) # <<>>} }

\* loadSentLog taking the address of every line with a numeric status
loadSentLogAnyStatus(files, name) ==
    IF name \notin DOMAIN files THEN {}
    ELSE LET lines == files[name] \o << <<>> >>
             field(k, n) == IF Len(split(lines[k], ":")) >= n
                            THEN split(lines[k], ":")[n] ELSE MissingField
         IN  { field(k, 3) : k \in {j \in DOMAIN lines :
                   /\ ToNumber(field(j, 2)) # NaN
                   /\ field(j, 3) # MissingField
                   /\ field(j, 3) # <<>>} }

\* loadSentLog: the addresses of the lines whose status is a number other
\* than 0; a file that cannot be read gives the empty set
loadSentLog(files, name) ==
    IF name \notin DOMAIN files THEN {}
    ELSE LET lines == files[name] \o << <<>> >>
             field(k, n) == IF Len(split(lines[k], ":")) >= n
                            THEN split(lines[k], ":")[n] ELSE MissingField
         IN  { field(k, 3) : k \in {j \in DOMAIN lines :
                   /\ ToNumber(field(j, 2)) # NaN
                   /\ ToNumber(field(j, 2)) # 0
                   /\ field(j, 3) # MissingField
                   /\ field(j, 3) # <<>>} }

\* what the geographic database answers
\* geoid is what getGeoId() returns: the zip code, a string, for a location
\* looked up by zip and the geonameid, a number, for one looked up by id; a
\* legacy city that is in the table of legacy cities is looked up by the
\* geonameid the table has for it
Place(name, lat, lon, tzid, geoid) ==
    [t |-> "loc", name |-> name, lat |-> lat, lon |-> lon, tzid |-> tzid,
     geoid |-> geoid]

\* makeCandlesCfg: the first of zip, geonameid and city that is set; null
\* without any of them.  A field left out of the config counts as "" or 0
makeCandlesCfg(row) ==
    LET base == [t |-> "cfg", id |-> row.email_id, email |-> row.email_address,
                 m |-> row.email_candles_havdalah,
                 M |-> row.email_havdalah_tzeit # 0,
                 b |-> row.email_sundown_candles,
                 ue |-> row.email_use_elevation # 0,
                 zip |-> <<>>, geonameid |-> 0, legacyCity |-> <<>>,
                 location |-> Place(<<>>, 0, 0, "UTC", Undefined)]
    IN  IF row.email_candles_zipcode # <<>>
        THEN [base EXCEPT !.zip = row.email_candles_zipcode]
        ELSE IF row.email_candles_geonameid # 0
        THEN [base EXCEPT !.geonameid = row.email_candles_geonameid]
        ELSE IF row.email_candles_city # <<>>
        THEN [base EXCEPT !.legacyCity =
                 [k \in DOMAIN row.email_candles_city |->
                    IF row.email_candles_city[k] = "+" THEN " "
                    ELSE row.email_candles_city[k]]]
        ELSE Null

\* Map.delete of every key in keys
MapDelete(map, keys) == SelectSeq(map, LAMBDA c : c.email \notin keys)

\* loadSubs: the map from address to config over the rows of the query; in
\* Map.set a known key keeps its place and takes the new value
RECURSIVE loadSubs(_, _)
loadSubs(results, map) ==
    IF results = <<>> THEN map
    ELSE LET cfg == makeCandlesCfg(Head(results))
             set == IF \E k \in DOMAIN map : map[k].email = cfg.email
                    THEN [k \in DOMAIN map |->
                            IF map[k].email = cfg.email THEN cfg ELSE map[k]]
                    ELSE Append(map, cfg)
         IN  loadSubs(Tail(results), IF cfg.t = "null" THEN map ELSE set)

\* parseConfig: the looked-up location, or false
parseConfig(cfg) ==
    LET NoLocation == [t |-> "undef"]
        lookupZip(zip) ==
            IF zip = <<"1", "0">>
            THEN Place(<<"N", "Y", "C">>, 40, 0 - 74, "America/New_York",
                       Str(zip))
            ELSE NoLocation
        lookupGeoname(id) ==
            IF id = 7
            THEN Place(<<"J", "L", "M">>, 31, 35, "Asia/Jerusalem",
                       [t |-> "num", v |-> id])
            ELSE NoLocation
        lookupLegacyCity(city) ==
            IF city = <<"I", "L">>
            THEN Place(<<"I", "L">>, 0, 0, "UTC", Undefined)
            ELSE IF city = <<"J", " ", "M">> THEN lookupGeoname(7)
            ELSE NoLocation
        location == IF cfg.zip # <<>> THEN lookupZip(cfg.zip)
                    ELSE IF cfg.legacyCity # <<>> THEN lookupLegacyCity(cfg.legacyCity)
                    ELSE IF cfg.geonameid # 0 THEN lookupGeoname(cfg.geonameid)
                    ELSE NoLocation
    IN  IF location.t = "undef" THEN False
        ELSE IF location.lon = 0 /\ location.lat = 0 THEN False
        ELSE IF location.tzid = "" THEN False
        ELSE [cfg EXCEPT !.location = location]

\* parseAllConfigs: the subscribers whose config parses, with their location
RECURSIVE parseAllConfigs(_)
parseAllConfigs(map) ==
    IF map = <<>> THEN <<>>
    ELSE (IF parseConfig(Head(map)).t = "false" THEN <<>>
          ELSE <<parseConfig(Head(map))>>) \o parseAllConfigs(Tail(map))

\* a.localeCompare(b) of names made of capital letters
RECURSIVE localeCompare(_, _)
localeCompare(a, b) ==
    LET Letters == <<"A", "B", "C", "D", "E", "F", "G", "H", "I", "J", "K",
                     "L", "M", "N", "O", "P", "Q", "R", "S", "T", "U", "V",
                     "W", "X", "Y", "Z">>
        LetterRank(c) == CHOOSE i \in DOMAIN Letters : Letters[i] = c
    IN
    IF a = <<>> /\ b = <<>> THEN 0
    ELSE IF a = <<>> THEN 0 - 1
    ELSE IF b = <<>> THEN 1
    ELSE IF Head(a) = Head(b) THEN localeCompare(Tail(a), Tail(b))
    ELSE IF LetterRank(Head(a)) < LetterRank(Head(b)) THEN 0 - 1 ELSE 1

\* compareConfigs: east to west, then south to north, then by name
compareConfigs(a, b) ==
    IF a.location.lon = b.location.lon
    THEN IF a.location.lat = b.location.lat
         THEN localeCompare(a.location.name, b.location.name)
         ELSE a.location.lat - b.location.lat
    ELSE b.location.lon - a.location.lon

\* cfgs.sort(compareConfigs): a stable sort
RECURSIVE InsertSorted(_, _)
InsertSorted(x, sorted) ==
    IF sorted = <<>> THEN <<x>>
    ELSE IF compareConfigs(Head(sorted), x) <= 0
    THEN <<Head(sorted)>> \o InsertSorted(x, Tail(sorted))
    ELSE <<x>> \o sorted
RECURSIVE sort(_)
sort(list) ==
    IF list = <<>> THEN <<>>
    ELSE InsertSorted(list[Len(list)], sort(SubSeq(list, 1, Len(list) - 1)))

\* what the transport reports for an accepted message; the first line of
\* the response says whether the server took it
MessageId == <<"<", "m", "@", "h", ">">>
Responses == {<<"2", "5", "0", " ", "O", "K">>, <<"4", "5", "1">>}
Accepted(response) == Len(response) >= 3 /\ SubSeq(response, 1, 3) = <<"2", "5", "0">>

\* writeLogLine: "<mid>:<status>:<email>:<location>"
LogLine(cfg, info) ==
    LET location == IF cfg.zip # <<>> THEN cfg.zip
                    ELSE IF cfg.geonameid # 0 THEN NumStr(cfg.geonameid)
                    ELSE cfg.legacyCity
        mid == substring(info.messageId, 1, IndexOf(info.messageId, "@"))
        st == IF Accepted(info.response) THEN <<"1">> ELSE <<"0">>
    IN  mid \o <<":">> \o st \o <<":">> \o cfg.email \o <<":">> \o location

\* the rows of hebcal_shabbat_email the query of loadSubs returns
\* (havdalah at nightfall, candles 18 minutes before sunset, no elevation)
ShabbatRow(email, id, zip, geonameid, city) ==
    [email_address |-> email, email_id |-> id, email_status |-> "active",
     email_candles_zipcode |-> zip,
     email_candles_geonameid |-> geonameid, email_candles_city |-> city,
     email_use_elevation |-> 0, email_candles_havdalah |-> Null,
     email_havdalah_tzeit |-> 1, email_sundown_candles |-> 18]
ShabbatRows ==
    << ShabbatRow(<<"n", "@", "x">>, "id1", <<"1", "0">>, 0, <<>>),
       ShabbatRow(<<"j", "@", "x">>, "id2", <<>>, 7, <<>>),
       ShabbatRow(<<"q", "@", "x">>, "id3", <<>>, 0, <<"N", "o", "+", "W">>),
       ShabbatRow(<<"z", "@", "x">>, "id4", <<>>, 0, <<>>) >>

\* the first day of the behaviours of the weekly digest: a Wednesday
WeeklyStartDay == StartDay + 5

\* the sent logs there are at the start: none, or the log of the week with
\* a line of a message the server did not take, or with a line of a message
\* it took
InitialSentLogs ==
    { <<>>,
      (Friday(WeeklyStartDay) :>
         << LogLine(makeCandlesCfg(ShabbatRows[2]),
                    [messageId |-> MessageId, response |-> <<"4", "5", "1">>]) >>),
      (Friday(WeeklyStartDay) :>
         << LogLine(makeCandlesCfg(ShabbatRows[1]),
                    [messageId |-> MessageId,
                     response |-> <<"2", "5", "0", " ", "O", "K">>]) >>) }

(***************************************************************************)
(* State                                                                   *)
(***************************************************************************)
\* the invocations (operating-system processes) of the anniversary engine
Procs == {1, 2}

VARIABLES
    now,              \* wall clock, a day number
    faults,           \* faults injected so far
    yahrzeit,         \* rows of yahrzeit_email joined with yahrzeit
    yahrzeit_optout,  \* table yahrzeit_optout
    yahrzeit_sent7,   \* table yahrzeit_sent7, in insertion order
    yahrzeit_sent1,   \* table yahrzeit_sent1, in insertion order
    yahrzeit_atime,   \* table yahrzeit_atime: calendar id -> ts
    delivered,        \* messages the mail transport accepted, with their number
    pc,               \* position of each invocation in main
    argv,             \* command line of each invocation
    today,            \* const today of each invocation
    rows,             \* main: rows
    optout,           \* main: optout
    sent7,            \* loadSubsFromDb: sent7
    sent1,            \* loadSubsFromDb: sent1
    toSend,           \* main: toSend
    idx,              \* main: position of the for loop in toSend
    status,           \* what has happened to each candidate of toSend
    numSent,          \* let numSent
    program,          \* the program the invocations run: the two share no state
    sentLog,          \* the sent logs: Friday of the week -> lines
    lockfile,         \* holder of the lock on hebcal-shabbat-weekly.lock, or 0
    subs,             \* shabbat_weekly main: subs, in insertion order
    cfgs,             \* mainInner: cfgs
    prevCfg,          \* let prevCfg of each invocation
    prevSubjAndBody,  \* let prevSubjAndBody of each invocation
    sqsQueue,         \* the two SQS queues: messages not deleted
    qpc,              \* position of shabbat_bounce_sqs in main
    queueURL,         \* the queue being read
    Messages,         \* response.Messages: the batch received
    msgIndex,         \* position of the for loop in Messages
    hebcal_shabbat_bounce,  \* table hebcal_shabbat_bounce, in insertion order
    hebcal_shabbat_email,   \* table hebcal_shabbat_email: email_id -> row
    logStream         \* lines written to the bounce log and to subscribers.log

vars == <<now, faults, yahrzeit, yahrzeit_optout, yahrzeit_sent7, yahrzeit_sent1,
           yahrzeit_atime, delivered, pc, argv, today, rows,
           optout, sent7, sent1, toSend, idx, status, numSent,
           program, sentLog, lockfile, subs, cfgs, prevCfg, prevSubjAndBody,
           sqsQueue, qpc, queueURL, Messages, msgIndex,
           hebcal_shabbat_bounce, hebcal_shabbat_email, logStream>>

\* the state of the reader of the bounce and unsubscribe queues
qstate == <<sqsQueue, qpc, queueURL, Messages, msgIndex,
            hebcal_shabbat_bounce, hebcal_shabbat_email, logStream>>

\* the cache of getSubjectAndBody
cache == <<prevCfg, prevSubjAndBody>>

\* the state of the weekly digest; the queues are left alone with it
wstate == <<program, sentLog, lockfile, subs, cfgs, cache, qstate>>

tables == <<yahrzeit, yahrzeit_optout, yahrzeit_sent7, yahrzeit_sent1,
            yahrzeit_atime>>

locals == <<argv, today, rows, optout, sent7, sent1, toSend, idx, status, numSent>>

Range(f) == {f[k] : k \in DOMAIN f}

NoArgv == [dryrun |-> FALSE, force |-> FALSE, date |-> NoDate]

\* shabbat_bounce_sqs is not run: its queues are empty and every subscriber
\* of hebcal_shabbat_email is active
QueuesIdle ==
    /\ sqsQueue = [q \in {"unsub", "bounce"} |-> {}]
    /\ qpc = "idle"
    /\ queueURL = "unsub"
    /\ Messages = <<>>
    /\ msgIndex = 0
    /\ hebcal_shabbat_bounce = <<>>
    /\ hebcal_shabbat_email = ShabbatRows
    /\ logStream = <<>>

\* positions of a process that is not running: not started yet, exit(0) at
\* the holiday gate, main resolved, main rejected, killed
Halted == {"idle", "skipped", "done", "fatal", "killed"}

Init ==
    /\ program \in {"yahrzeit", "weekly"}
    /\ QueuesIdle
    /\ prevCfg = [p \in Procs |-> Undefined]
    /\ prevSubjAndBody = [p \in Procs |-> Undefined]
    /\ now = IF program = "yahrzeit" THEN StartDay ELSE WeeklyStartDay
    /\ faults = 0
    /\ yahrzeit = InitialRows
    \* the opt-out table: empty, or with an opt-out of entry a.2
    /\ yahrzeit_optout \in IF program = "yahrzeit"
                            THEN { {}, {OptOutRow("a", 2, SqlNull)} }
                            ELSE {{}}
    \* the 7-day ledger: empty, or with a legacy row without name_hash for
    \* b.1 in Hebrew year 1 that leaves the retention period after the first
    \* day
    /\ yahrzeit_sent7 \in IF program = "yahrzeit"
                           THEN { <<>>, <<SentRow("b", SqlNull, 1, 1,
                                                  StartDay + 1 - RetentionDays)>> }
                           ELSE {<<>>}
    /\ sentLog \in IF program = "weekly" THEN InitialSentLogs ELSE {<<>>}
    /\ lockfile = 0
    /\ subs = [p \in Procs |-> <<>>]
    /\ cfgs = [p \in Procs |-> <<>>]
    /\ yahrzeit_sent1 = <<>>
    /\ yahrzeit_atime = <<>>
    /\ delivered = <<>>
    /\ pc = [p \in Procs |-> "idle"]
    /\ argv = [p \in Procs |-> NoArgv]
    /\ today = [p \in Procs |-> NoDate]
    /\ rows = [p \in Procs |-> <<>>]
    /\ optout = [p \in Procs |-> {}]
    /\ sent7 = [p \in Procs |-> {}]
    /\ sent1 = [p \in Procs |-> {}]
    /\ toSend = [p \in Procs |-> <<>>]
    /\ idx = [p \in Procs |-> 0]
    /\ status = [p \in Procs |-> <<>>]
    /\ numSent = [p \in Procs |-> 0]

(***************************************************************************)
(* Anniversary engine: one invocation of yahrzeit_email.ts                 *)
(***************************************************************************)
\* the candidates of list whose entry in st is "pending"
RECURSIVE Pending(_, _)
Pending(list, st) ==
    IF list = <<>> THEN <<>>
    ELSE (IF Head(st) = "pending" THEN <<Head(list)>> ELSE <<>>)
           \o Pending(Tail(list), Tail(st))

\* the process ends: its memory is gone.  For the record the model keeps the
\* day of the invocation and the candidates main never reached
Halt(p, how) ==
    /\ pc' = [pc EXCEPT ![p] = how]
    /\ toSend' = [toSend EXCEPT ![p] = Pending(toSend[p], status[p])]
    /\ status' = [status EXCEPT ![p] = SelectSeq(@, LAMBDA x : x = "pending")]
    /\ argv' = [argv EXCEPT ![p] = NoArgv]
    /\ rows' = [rows EXCEPT ![p] = <<>>]
    /\ optout' = [optout EXCEPT ![p] = {}]
    /\ sent7' = [sent7 EXCEPT ![p] = {}]
    /\ sent1' = [sent1 EXCEPT ![p] = {}]
    /\ idx' = [idx EXCEPT ![p] = 0]
    /\ numSent' = [numSent EXCEPT ![p] = 0]
    /\ UNCHANGED today

\* --date values the model tries: none, today is the wall clock

\* module load: today = dayjs(argv.date); exit(0) on a holiday or a Saturday
\* unless --force
Launch(p, a) ==
    /\ program = "yahrzeit"
    /\ UNCHANGED wstate
    /\ pc[p] \in Halted
    /\ LET t == IF a.date = NoDate THEN now ELSE a.date
       IN  IF (getChagOnDate(t) \/ DayOfWeek(t) = 6) /\ ~a.force
           THEN /\ pc' = [pc EXCEPT ![p] = "skipped"]
                /\ today' = [today EXCEPT ![p] = NoDate]
                /\ UNCHANGED argv
           ELSE /\ pc' = [pc EXCEPT ![p] = "query"]
                /\ today' = [today EXCEPT ![p] = t]
                /\ argv' = [argv EXCEPT ![p] = a]
    /\ status' = [status EXCEPT ![p] = <<>>]
    /\ toSend' = [toSend EXCEPT ![p] = <<>>]
    /\ UNCHANGED <<now, faults, tables, delivered, rows, optout, sent7, sent1,
                   idx, numSent>>

Start(p) ==
    \E d \in BOOLEAN, f \in BOOLEAN, dt \in {NoDate} :
        Launch(p, [dryrun |-> d, force |-> f, date |-> dt])

\* main: SELECT ... WHERE e.sub_status = 'active'; zero rows end the run
QueryRows(p) ==
    /\ UNCHANGED wstate
    /\ pc[p] = "query"
    /\ LET got == SelectSeq(yahrzeit, LAMBDA r : r.sub_status = "active")
       IN  IF got = <<>>
           THEN Halt(p, "done")
           ELSE /\ rows' = [rows EXCEPT ![p] = got]
                /\ pc' = [pc EXCEPT ![p] = "optout"]
                /\ UNCHANGED <<argv, today, optout, sent7, sent1, toSend, idx,
                               status, numSent>>
    /\ UNCHANGED <<now, faults, tables, delivered>>

LoadOptOut(p) ==
    /\ UNCHANGED wstate
    /\ pc[p] = "optout"
    /\ optout' = [optout EXCEPT ![p] = loadOptOut(yahrzeit_optout)]
    /\ pc' = [pc EXCEPT ![p] = "sent7"]
    /\ UNCHANGED <<now, faults, tables, delivered, argv, today, rows, sent7,
                   sent1, toSend, idx, status, numSent>>

\* loadSubsFromDb: await loadRecentSent('yahrzeit_sent7')
LoadSent7(p) ==
    /\ UNCHANGED wstate
    /\ pc[p] = "sent7"
    /\ sent7' = [sent7 EXCEPT ![p] = loadRecentSent(yahrzeit_sent7, now)]
    /\ pc' = [pc EXCEPT ![p] = "sent1"]
    /\ UNCHANGED <<now, faults, tables, delivered, argv, today, rows, optout,
                   sent1, toSend, idx, status, numSent>>

\* today = dayjs(argv.date) of invocation p
Today(p) == [day |-> today[p], midnight |-> argv[p].date # NoDate]

\* position of main at the head of the for loop, index i of n candidates

\* loadSubsFromDb: await loadRecentSent('yahrzeit_sent1'), then the
\* selection; an exception of the selection rejects main.  The selection
\* throws a TypeError at `contents.id = row.id` (the module is an ES module,
\* so strict) when row.contents is null or a string
LoadSent1(p) ==
    /\ UNCHANGED wstate
    /\ pc[p] = "sent1"
    /\ IF \E k \in DOMAIN rows[p] : rows[p][k].typeof_contents # "object"
       THEN Halt(p, "fatal")
       ELSE LET s1 == loadRecentSent(yahrzeit_sent1, now)
                list == loadSubsFromDb(rows[p], optout[p], sent7[p], s1, Today(p))
            IN  /\ sent1' = [sent1 EXCEPT ![p] = s1]
                /\ toSend' = [toSend EXCEPT ![p] = list]
                /\ status' = [status EXCEPT ![p] =
                                 [k \in 1..Len(list) |-> "pending"]]
                /\ idx' = [idx EXCEPT ![p] = 1]
                /\ pc' = [pc EXCEPT ![p] = IF 1 > Len(list) THEN "atime"
                                            ELSE "compose"]
                /\ UNCHANGED <<argv, today, rows, optout, sent7, numSent>>
    /\ UNCHANGED <<now, faults, tables, delivered>>

\* a query of the loading phase or of the access-time update fails: main rejects
DbError(p) ==
    /\ UNCHANGED wstate
    /\ pc[p] \in {"query", "optout", "sent7", "sent1", "atime"}
    /\ faults < MaxFaults
    /\ faults' = faults + 1
    /\ Halt(p, "fatal")
    /\ UNCHANGED <<now, tables, delivered>>

\* the ledgers after the INSERT of processAnniversary for info
InsertSent(info, clock, t7, t1) ==
    LET row == SentRow(info.id, info.hash, info.num, info.hyear, clock)
    IN  IF info.reminderDays = 7 THEN <<Append(t7, row), t1>>
        ELSE <<t7, Append(t1, row)>>

\* processAnniversary with the INSERT issued before the message is sent
ComposeRecordingFirst(p) ==
    /\ UNCHANGED wstate
    /\ pc[p] = "compose"
    /\ pc' = [pc EXCEPT ![p] = "send"]
    /\ LET t == IF argv[p].dryrun THEN <<yahrzeit_sent7, yahrzeit_sent1>>
                ELSE InsertSent(toSend[p][idx[p]], now, yahrzeit_sent7,
                                yahrzeit_sent1)
       IN  /\ yahrzeit_sent7' = t[1]
           /\ yahrzeit_sent1' = t[2]
    /\ UNCHANGED <<now, faults, yahrzeit, yahrzeit_optout, yahrzeit_atime,
                   delivered, locals>>

\* the loop of main calling processAnniversary without await: the message
\* is handed to the transport and the loop goes on to the next candidate
ComposeWithoutAwait(p) ==
    /\ UNCHANGED wstate
    /\ pc[p] = "compose"
    /\ status' = [status EXCEPT ![p][idx[p]] = "sent"]
    /\ idx' = [idx EXCEPT ![p] = @ + 1]
    /\ pc' = [pc EXCEPT ![p] = IF idx[p] + 1 > Len(toSend[p]) THEN "atime"
                                ELSE "compose"]
    /\ UNCHANGED <<now, faults, tables, delivered, argv, today, rows, optout,
                   sent7, sent1, toSend, numSent>>

\* processAnniversary: makeMessage(info) returns
Compose(p) ==
    /\ UNCHANGED wstate
    /\ pc[p] = "compose"
    /\ pc' = [pc EXCEPT ![p] = "send"]
    /\ UNCHANGED <<now, faults, tables, delivered, locals>>

\* processAnniversary: makeMessage(info) throws; the call is outside the try
\* block of processAnniversary and the loop of main has no try block, so main
\* rejects
ComposeFails(p) ==
    /\ UNCHANGED wstate
    /\ pc[p] = "compose"
    /\ faults < MaxFaults
    /\ faults' = faults + 1
    /\ Halt(p, "fatal")
    /\ UNCHANGED <<now, tables, delivered>>

\* the for loop of main moves on to the next candidate
Advance(p, st, sentInc) ==
    /\ status' = [status EXCEPT ![p][idx[p]] = st]
    /\ numSent' = [numSent EXCEPT ![p] = @ + sentInc]
    /\ idx' = [idx EXCEPT ![p] = @ + 1]
    /\ pc' = [pc EXCEPT ![p] = IF idx[p] + 1 > Len(toSend[p]) THEN "atime"
                                ELSE "compose"]
    /\ UNCHANGED <<now, argv, today, rows, optout, sent7, sent1, toSend>>

\* key of a delivered message: the occurrence and the window it was sent for
Msg(info) == <<Identity(info), info.reminderDays>>

Count(bag, k) == IF k \in DOMAIN bag THEN bag[k] ELSE 0
AddOne(bag, k) == [x \in DOMAIN bag \cup {k} |-> IF x = k THEN Count(bag, k) + 1 ELSE bag[x]]

\* sendMail resolves and the INSERT is left for the end of the run
SendOkDeferWrite(p) ==
    /\ UNCHANGED wstate
    /\ pc[p] = "send"
    /\ delivered' = IF argv[p].dryrun THEN delivered
                    ELSE AddOne(delivered, Msg(toSend[p][idx[p]]))
    /\ Advance(p, IF argv[p].dryrun THEN "dry" ELSE "sent", 1)
    /\ UNCHANGED <<faults, tables>>

\* a failed send that records the occurrence all the same
SendFailsRecording(p) ==
    /\ UNCHANGED wstate
    /\ pc[p] = "send"
    /\ ~argv[p].dryrun
    /\ faults < MaxFaults
    /\ faults' = faults + 1
    /\ LET t == InsertSent(toSend[p][idx[p]], now, yahrzeit_sent7, yahrzeit_sent1)
       IN  /\ yahrzeit_sent7' = t[1]
           /\ yahrzeit_sent1' = t[2]
    /\ Advance(p, "failed", 0)
    /\ UNCHANGED <<yahrzeit, yahrzeit_optout, yahrzeit_atime, delivered>>

\* sendMail handing the message to the transport in a dry run too
SendOkIgnoringDryrun(p) ==
    /\ UNCHANGED wstate
    /\ pc[p] = "send"
    /\ delivered' = AddOne(delivered, Msg(toSend[p][idx[p]]))
    /\ status' = [status EXCEPT ![p][idx[p]] = "sent"]
    /\ pc' = [pc EXCEPT ![p] = "insert"]
    /\ UNCHANGED <<now, faults, tables, argv, today, rows, optout, sent7, sent1,
                   toSend, idx, numSent>>

\* sendMail resolves: without the transport in a dry run, else the transport
\* accepted the message
SendOk(p) ==
    /\ UNCHANGED wstate
    /\ pc[p] = "send"
    /\ IF argv[p].dryrun
       THEN /\ Advance(p, "dry", 1)
            /\ UNCHANGED <<faults, tables, delivered>>
       ELSE /\ delivered' = AddOne(delivered, Msg(toSend[p][idx[p]]))
            /\ status' = [status EXCEPT ![p][idx[p]] = "sent"]
            /\ pc' = [pc EXCEPT ![p] = "insert"]
            /\ UNCHANGED <<now, faults, tables, argv, today, rows, optout,
                           sent7, sent1, toSend, idx, numSent>>

\* transporter.sendMail reports an error: caught, logged, next candidate
SendFails(p) ==
    /\ UNCHANGED wstate
    /\ pc[p] = "send"
    /\ ~argv[p].dryrun
    /\ faults < MaxFaults
    /\ faults' = faults + 1
    /\ Advance(p, "failed", 0)
    /\ UNCHANGED <<tables, delivered>>

\* the INSERT reported as done without a row being written
InsertOkWithoutRow(p) ==
    /\ UNCHANGED wstate
    /\ pc[p] = "insert"
    /\ Advance(p, "recorded", 1)
    /\ UNCHANGED <<faults, tables, delivered>>

\* INSERT INTO yahrzeit_sent<reminderDays> succeeds
InsertOk(p) ==
    /\ UNCHANGED wstate
    /\ pc[p] = "insert"
    /\ LET t == InsertSent(toSend[p][idx[p]], now, yahrzeit_sent7, yahrzeit_sent1)
       IN  /\ yahrzeit_sent7' = t[1]
           /\ yahrzeit_sent1' = t[2]
    /\ Advance(p, "recorded", 1)
    /\ UNCHANGED <<faults, yahrzeit, yahrzeit_optout, yahrzeit_atime, delivered>>

\* the INSERT fails: caught, logged, next candidate
InsertFails(p) ==
    /\ UNCHANGED wstate
    /\ pc[p] = "insert"
    /\ faults < MaxFaults
    /\ faults' = faults + 1
    /\ Advance(p, "unrecorded", 0)
    /\ UNCHANGED <<tables, delivered>>

\* main after the loop: REPLACE INTO yahrzeit_atime for every calendar, close
UpdateAtime(p) ==
    /\ UNCHANGED wstate
    /\ pc[p] = "atime"
    /\ LET ids == {rows[p][k].calendar_id : k \in DOMAIN rows[p]}
       IN  yahrzeit_atime' =
             [c \in DOMAIN yahrzeit_atime \cup ids |->
                IF c \in ids THEN now ELSE yahrzeit_atime[c]]
    /\ Halt(p, "done")
    /\ UNCHANGED <<now, faults, yahrzeit, yahrzeit_optout, yahrzeit_sent7,
                   yahrzeit_sent1, delivered>>

\* the process is killed from outside
Kill(p) ==
    /\ UNCHANGED wstate
    /\ program = "yahrzeit"
    /\ pc[p] \notin Halted
    /\ faults < MaxFaults
    /\ faults' = faults + 1
    /\ Halt(p, "killed")
    /\ UNCHANGED <<now, tables, delivered>>

(***************************************************************************)
(* Weekly digest: one invocation of shabbat_weekly.ts                      *)
(***************************************************************************)
\* what an invocation of the weekly digest never touches
ystate == <<tables, rows, optout, sent7, sent1, toSend, numSent>>


\* getSpecialNote: in the season of the year-at-a-glance page (16 to 26 Av
\* and Elul; in the calendar of the model, Elul) the note links to the page
\* of the subscriber's zip code or geonameid, with the candle-lighting and
\* havdalah settings; out of the season there is no note
getSpecialNote(cfg, t) ==
    IF (t % HebYearLen) >= HebYearLen - ElulLen
    THEN [nextYear |-> HebYear(t) + 1,
          fridgeLoc |-> IF cfg.zip # <<>> THEN <<"zip=", cfg.zip>>
                        ELSE <<"geonameid=", cfg.geonameid>>,
          b |-> cfg.b,
          havdalah |-> IF cfg.m.t = "num" /\ cfg.m.v # 0 THEN <<"&m=", cfg.m.v>>
                       ELSE IF cfg.M THEN <<"&M=on">> ELSE <<>>,
          shortLocation |-> cfg.location.name]
    ELSE Str(<<>>)

\* genSubjectAndBody: the subject and the bodies are made of the events of
\* the week, which HebrewCalendar.calendar computes from the options, and of
\* the short name of the location; the notes are those of getSpecialNote
genSubjectAndBody(cfg, t) ==
    [events |-> [start |-> t, location |-> cfg.location,
                 candleLightingMins |-> cfg.b, useElevation |-> cfg.ue,
                 havdalahMins |-> IF cfg.m.t = "num" THEN cfg.m ELSE Undefined],
     shortLocation |-> cfg.location.name,
     specialNote |-> getSpecialNote(cfg, t)]

\* getSubjectAndBody: what it returns and the cache it leaves; the fragments
\* of the previous subscriber are returned when m, M, b, ue and the geo id of
\* the location are those of the previous subscriber
getSubjectAndBody(cfg, prev, prevResult, t) ==
    IF /\ prev.t = "cfg"
       /\ cfg.m = prev.m
       /\ cfg.M = prev.M
       /\ cfg.b = prev.b
       /\ cfg.ue = prev.ue
       /\ cfg.location.geoid = prev.location.geoid
    THEN [subjAndBody |-> prevResult, prevCfg |-> prev,
          prevSubjAndBody |-> prevResult]
    ELSE [subjAndBody |-> genSubjectAndBody(cfg, t), prevCfg |-> cfg,
          prevSubjAndBody |-> genSubjectAndBody(cfg, t)]

\* the process ends: its memory is gone and the lock it holds is free.  For
\* the record the model keeps the day of the invocation and the subscribers
\* mainInner never reached
WHalt(p, how) ==
    /\ pc' = [pc EXCEPT ![p] = how]
    /\ cfgs' = [cfgs EXCEPT ![p] = Pending(cfgs[p], status[p])]
    /\ status' = [status EXCEPT ![p] = SelectSeq(@, LAMBDA x : x = "pending")]
    /\ subs' = [subs EXCEPT ![p] = <<>>]
    /\ argv' = [argv EXCEPT ![p] = NoArgv]
    /\ idx' = [idx EXCEPT ![p] = 0]
    /\ lockfile' = IF lockfile = p THEN 0 ELSE lockfile
    /\ prevCfg' = [prevCfg EXCEPT ![p] = Undefined]
    /\ prevSubjAndBody' = [prevSubjAndBody EXCEPT ![p] = Undefined]
    /\ UNCHANGED <<today, program, qstate>>

\* number of lines in the sent logs
RECURSIVE LogLines(_)
LogLines(files) ==
    IF DOMAIN files = {} THEN 0
    ELSE LET f == CHOOSE x \in DOMAIN files : TRUE
         IN  Len(files[f]) + LogLines([x \in DOMAIN files \ {f} |-> files[x]])

\* module load: TODAY0 = dayjs(argv.date); exit(0) unless today is a day to
\* send on or --force is given
WLaunch(p, a) ==
    /\ program = "weekly"
    /\ pc[p] \in Halted
    /\ a.force => LogLines(sentLog) < MaxLogLines
    /\ LET t == IF a.date = NoDate THEN now ELSE a.date
       IN  IF ~shouldSendEmailToday(t) /\ ~a.force
           THEN /\ pc' = [pc EXCEPT ![p] = "skipped"]
                /\ today' = [today EXCEPT ![p] = NoDate]
                /\ UNCHANGED argv
           ELSE /\ pc' = [pc EXCEPT ![p] = "w_subs"]
                /\ today' = [today EXCEPT ![p] = t]
                /\ argv' = [argv EXCEPT ![p] = a]
    /\ status' = [status EXCEPT ![p] = <<>>]
    /\ cfgs' = [cfgs EXCEPT ![p] = <<>>]
    /\ UNCHANGED <<now, faults, delivered, idx, ystate, program, qstate, cache,
                   sentLog,
                   lockfile, subs>>

WStart(p) ==
    \E d \in BOOLEAN, f \in BOOLEAN, dt \in {NoDate} :
        WLaunch(p, [dryrun |-> d, force |-> f, date |-> dt])

\* main: subs = await loadSubs(config, argv._); with --force the sent log
\* is not read
WLoadSubs(p) ==
    /\ pc[p] = "w_subs"
    /\ subs' = [subs EXCEPT ![p] =
                  loadSubs(SelectSeq(hebcal_shabbat_email,
                                     LAMBDA r : r.email_status = "active"), <<>>)]
    /\ pc' = [pc EXCEPT ![p] = IF argv[p].force THEN "w_flock" ELSE "w_sentlog"]
    /\ UNCHANGED <<now, faults, delivered, argv, today, idx, status, ystate,
                   program, qstate, cache, sentLog, lockfile, cfgs>>

\* main: alreadySent = loadSentLog(sentLogFilename), and its addresses are
\* deleted from subs
WLoadSentLog(p) ==
    /\ pc[p] = "w_sentlog"
    /\ subs' = [subs EXCEPT ![p] =
                  MapDelete(@, loadSentLog(sentLog, Friday(today[p])))]
    /\ pc' = [pc EXCEPT ![p] = "w_flock"]
    /\ UNCHANGED <<now, faults, delivered, argv, today, idx, status, ystate,
                   program, qstate, cache, sentLog, lockfile, cfgs>>

\* position of mainInner at the head of its for loop

\* the sent logs with file name opened for appending
OpenAppend(files, name) ==
    [x \in DOMAIN files \cup {name} |-> IF x \in DOMAIN files THEN files[x] ELSE <<>>]

\* mainInner up to its first send: the configs are parsed and sorted; here
\* is the position at the head of the loop
WBegin(p, here) ==
    LET list == sort(parseAllConfigs(subs[p]))
    IN  /\ cfgs' = [cfgs EXCEPT ![p] = list]
        /\ status' = [status EXCEPT ![p] = [k \in 1..Len(list) |-> "pending"]]
        /\ idx' = [idx EXCEPT ![p] = 1]
        /\ pc' = [pc EXCEPT ![p] = here[Len(list)]]

\* the callback of flock runs without an error: the process holds the lock,
\* mainInner starts and opens the log stream
WGranted(p) ==
    /\ lockfile = 0
    /\ lockfile' = p
    /\ WBegin(p, [n \in 0..Len(subs[p]) |->
                     IF 1 > n THEN "w_end" ELSE "w_mail"])
    /\ sentLog' = IF argv[p].dryrun THEN sentLog
                  ELSE OpenAppend(sentLog, Friday(today[p]))
    /\ UNCHANGED <<now, faults, delivered, argv, today, ystate, program, qstate,
                   cache, subs>>

\* flock(lockfile, 'ex'): the lock is granted when it is free; the request
\* is a blocking one, and waits ("w_blocked") while another process holds the
\* lock, until that process releases it
WFlock(p) ==
    /\ pc[p] \in {"w_flock", "w_blocked"}
    /\ IF lockfile = 0
       THEN WGranted(p)
       ELSE /\ pc' = [pc EXCEPT ![p] = "w_blocked"]
            /\ UNCHANGED <<now, faults, delivered, argv, today, idx, status,
                           ystate, wstate>>

\* the callback of flock runs with an error: it calls reject(err), does not
\* return, and starts mainInner without the lock.  mainInner runs up to its
\* first await; the open of the log stream it has asked for may or may not
\* happen before the process exits
WFlockFails(p) ==
    /\ pc[p] \in {"w_flock", "w_blocked"}
    /\ faults < MaxFaults
    /\ faults' = faults + 1
    /\ WBegin(p, [n \in 0..Len(subs[p]) |-> "w_rejected"])
    /\ sentLog' \in IF argv[p].dryrun THEN {sentLog}
                    ELSE {sentLog, OpenAppend(sentLog, Friday(today[p]))}
    /\ UNCHANGED <<now, delivered, argv, today, ystate, program, qstate, cache,
                   lockfile, subs>>

\* the rejection of main reaches the catch handler before any send or write
\* of mainInner can complete: logger.fatal(err), process.exit(1)
WExitRejected(p) ==
    /\ pc[p] = "w_rejected"
    /\ WHalt(p, "fatal")
    /\ UNCHANGED <<now, faults, delivered, ystate, sentLog>>

\* the query of loadSubs fails: main rejects and the process exits with
\* status 1
WLoadFails(p) ==
    /\ pc[p] = "w_subs"
    /\ faults < MaxFaults
    /\ faults' = faults + 1
    /\ WHalt(p, "fatal")
    /\ UNCHANGED <<now, delivered, ystate, sentLog>>

\* the for loop of mainInner moves on to the next subscriber
WAdvance(p, st) ==
    /\ status' = [status EXCEPT ![p][idx[p]] = st]
    /\ idx' = [idx EXCEPT ![p] = @ + 1]
    /\ pc' = [pc EXCEPT ![p] = IF idx[p] + 1 > Len(cfgs[p]) THEN "w_end"
                                ELSE "w_mail"]
    /\ UNCHANGED <<now, argv, today, ystate, program, qstate, lockfile, subs, cfgs>>

\* the status of a subscriber whose message the transport answered

\* mailUser resolves: with undefined in a dry run, else with the answer of
\* the transport; in both the message is composed first (getMessage).  A
\* delivered digest is kept under its address, its week, the invocation and
\* whether it ran with --force
WMailOk(p, response) ==
    /\ pc[p] = "w_mail"
    /\ LET got == getSubjectAndBody(cfgs[p][idx[p]], prevCfg[p],
                                    prevSubjAndBody[p], today[p])
       IN  /\ prevCfg' = [prevCfg EXCEPT ![p] = got.prevCfg]
           /\ prevSubjAndBody' = [prevSubjAndBody EXCEPT ![p] = got.prevSubjAndBody]
    /\ IF argv[p].dryrun
       THEN /\ Accepted(response)
            /\ WAdvance(p, "dry")
            /\ UNCHANGED <<faults, delivered, sentLog>>
       ELSE /\ ~Accepted(response) => faults < MaxFaults
            /\ faults' = IF Accepted(response) THEN faults ELSE faults + 1
            /\ delivered' = IF Accepted(response)
                            THEN AddOne(delivered,
                                        <<cfgs[p][idx[p]].email, Friday(today[p]),
                                          p, argv[p].force>>)
                            ELSE delivered
            /\ status' = [status EXCEPT ![p][idx[p]] =
                             IF Accepted(response) THEN "sent" ELSE "refused"]
            /\ pc' = [pc EXCEPT ![p] = "w_log"]
            /\ UNCHANGED <<now, argv, today, idx, ystate, program, qstate, sentLog,
                           lockfile, subs, cfgs>>

\* mailUser throws (getMessage or the transport): nothing in mainInner or
\* main catches it, main rejects and the process exits with status 1
WMailFails(p) ==
    /\ pc[p] = "w_mail"
    /\ faults < MaxFaults
    /\ faults' = faults + 1
    /\ WHalt(p, "fatal")
    /\ UNCHANGED <<now, delivered, ystate, sentLog>>

\* writeLogLine(logStream, cfg, info)
WWriteLog(p) ==
    /\ pc[p] = "w_log"
    /\ LET response == CHOOSE r \in Responses :
                           (IF Accepted(r) THEN "sent" ELSE "refused")
                             = status[p][idx[p]]
           info == [messageId |-> MessageId, response |-> response]
           name == Friday(today[p])
       IN  sentLog' =
             [x \in DOMAIN sentLog \cup {name} |->
                IF x = name
                THEN (IF name \in DOMAIN sentLog THEN sentLog[name] ELSE <<>>)
                       \o <<LogLine(cfgs[p][idx[p]], info)>>
                ELSE sentLog[x]]
    /\ WAdvance(p, IF status[p][idx[p]] = "sent" THEN "recorded" ELSE "noted")
    /\ UNCHANGED <<faults, delivered, cache>>

\* mainInner resolves: logStream.end(), fs.closeSync(lockfile), resolve
WEnd(p) ==
    /\ pc[p] = "w_end"
    /\ WHalt(p, "done")
    /\ UNCHANGED <<now, faults, delivered, ystate, sentLog>>

\* the process is killed from outside
WKill(p) ==
    /\ pc[p] \in {"w_subs", "w_sentlog", "w_flock", "w_blocked", "w_mail",
                  "w_log", "w_end"}
    /\ faults < MaxFaults
    /\ faults' = faults + 1
    /\ WHalt(p, "killed")
    /\ UNCHANGED <<now, delivered, ystate, sentLog>>

WStep(p) ==
    \/ WLoadSubs(p) \/ WLoadSentLog(p) \/ WFlock(p)
    \/ WFlockFails(p) \/ WExitRejected(p) \/ WLoadFails(p)
    \/ (\E r \in Responses : WMailOk(p, r)) \/ WMailFails(p) \/ WWriteLog(p)
    \/ WEnd(p) \/ WKill(p)

\* a day passes between invocations
Tick ==
    /\ \A p \in Procs : pc[p] \in Halted
    /\ now < (IF program = "yahrzeit" THEN StartDay ELSE WeeklyStartDay) + MaxTicks
    /\ now' = now + 1
    /\ UNCHANGED <<faults, tables, delivered, pc, locals, wstate>>

Step(p) ==
    \/ QueryRows(p) \/ LoadOptOut(p) \/ LoadSent7(p) \/ LoadSent1(p)
    \/ DbError(p) \/ Compose(p) \/ ComposeFails(p) \/ SendOk(p) \/ SendFails(p)
    \/ InsertOk(p) \/ InsertFails(p) \/ UpdateAtime(p) \/ Kill(p)

\* invocations one after another, as the scheduler starts them
Next ==
    \/ Tick
    \/ (\A q \in Procs : pc[q] \in Halted) /\ (Start(1) \/ WStart(1))
    \/ \E p \in Procs : Step(p) \/ WStep(p)

Spec == Init /\ [][Next]_vars

\* two invocations that may overlap, each started once
SpecOverlap ==
    Init /\ [][\/ Tick
               \/ \E p \in Procs : \/ pc[p] = "idle" /\ (Start(p) \/ WStart(p))
                                   \/ Step(p) \/ WStep(p)]_vars

(***************************************************************************)
(* The selection of one invocation, over a range of days and tables        *)
(***************************************************************************)
\* last day of the clock in the states the selection is examined in
MaxSelectDay == 30

\* the hash of entry 1 of subscription a as InitialRows has it
KeyA1 == getYahrzeitDetailForId(InitialRows[1].contents, 1).hash

\* InitialRows after an edit of entry 1 of subscription a
Edited(k, val) ==
    [InitialRows EXCEPT ![1].contents = (k :> Str(val)) @@ @]

InitSelect ==
    /\ program = "yahrzeit"
    /\ QueuesIdle
    /\ prevCfg = [p \in Procs |-> Undefined]
    /\ prevSubjAndBody = [p \in Procs |-> Undefined]
    /\ now \in 0..MaxSelectDay
    /\ faults = 0
    \* the subscription table: as InitialRows, with entry a.1 on another
    \* day, with entry a.1 of another kind, or with two more entries of
    \* subscription a: 3 has the date and kind of 1, and 4 is a Yahrzeit of
    \* 2021-01-01, observed on the days entry 1 is from Hebrew year 2 on
    /\ yahrzeit \in
          {InitialRows, Edited(Key("d", 1), <<"3">>),
           Edited(Key("t", 1), <<"B">>),
           [InitialRows EXCEPT ![1].contents =
              (Key("x", 3) :> Str(<<"2", "0", "2", "0", "-", "0", "1", "-", "0", "1">>)) @@
              (Key("t", 3) :> Str(<<"Y">>)) @@
              (Key("x", 4) :> Str(<<"2", "0", "2", "1", "-", "0", "1", "-", "0", "1">>)) @@
              (Key("t", 4) :> Str(<<"Y">>)) @@ @]}
    \* the opt-out table: any of an opt-out of entry a.2, an opt-out of
    \* subscription a, an opt-out of entry a.1 under the hash KeyA1, and a
    \* row for b.1 that is not in force
    /\ yahrzeit_optout \in
          SUBSET {OptOutRow("a", 2, SqlNull), OptOutRow("a", 0, SqlNull),
                  OptOutRow("a", 1, KeyA1),
                  [OptOutRow("b", 1, SqlNull) EXCEPT !.deactivated = 0]}
    \* the ledgers: empty; or a row for a.1 in Hebrew year 1 under KeyA1 in
    \* the 7-day ledger; or, in the 7-day ledger, rows without name_hash for
    \* b.1 on the last day of the retention period and for a.2 on the day
    \* before it, and in the 1-day ledger a row without name_hash for a.1
    /\ \E ledgers \in
          { <<<<>>, <<>>>>,
            << <<SentRow("a", KeyA1, 1, 1, now)>>, <<>> >>,
            << <<SentRow("b", SqlNull, 1, 1, now - (RetentionDays - 1)),
                 SentRow("a", SqlNull, 2, 1, now - RetentionDays)>>,
               <<SentRow("a", SqlNull, 1, 1, now)>> >> } :
           /\ yahrzeit_sent7 = ledgers[1]
           /\ yahrzeit_sent1 = ledgers[2]
    /\ sentLog = <<>>
    /\ lockfile = 0
    /\ subs = [p \in Procs |-> <<>>]
    /\ cfgs = [p \in Procs |-> <<>>]
    /\ yahrzeit_atime = <<>>
    /\ delivered = <<>>
    /\ pc = [p \in Procs |-> "idle"]
    /\ argv = [p \in Procs |-> NoArgv]
    /\ today = [p \in Procs |-> NoDate]
    /\ rows = [p \in Procs |-> <<>>]
    /\ optout = [p \in Procs |-> {}]
    /\ sent7 = [p \in Procs |-> {}]
    /\ sent1 = [p \in Procs |-> {}]
    /\ toSend = [p \in Procs |-> <<>>]
    /\ idx = [p \in Procs |-> 0]
    /\ status = [p \in Procs |-> <<>>]
    /\ numSent = [p \in Procs |-> 0]

\* one invocation, with or without --force, and with --date naming the
\* day of the clock or without --date
StartSelect ==
    /\ pc[1] = "idle"
    /\ \E f \in BOOLEAN, dt \in {NoDate, now} :
           Launch(1, [dryrun |-> TRUE, force |-> f, date |-> dt])

NextSelect ==
    StartSelect \/ QueryRows(1) \/ LoadOptOut(1) \/ LoadSent7(1) \/ LoadSent1(1)

SpecSelect == InitSelect /\ [][NextSelect]_vars

(***************************************************************************)
(* The selection of one invocation, over the encodings of an entry         *)
(***************************************************************************)
\* last day of the anchor dates the entries are given
MaxAnchorDay == 20

\* The table has subscription a and subscription b of InitialRows.  The
\* payload of a is one of
\*   - the same date, kind and after-sunset flag in two entries: entry 1 as
\*     separate fields, with or without leading zeros, entry 2 packed;
\*   - an entry 1 with each field absent, blank, well-formed or not, and an
\*     entry 2 that is absent, complete, or has a blank day;
\*   - not an object.
InitEntries ==
    /\ program = "yahrzeit"
    /\ QueuesIdle
    /\ prevCfg = [p \in Procs |-> Undefined]
    /\ prevSubjAndBody = [p \in Procs |-> Undefined]
    /\ faults = 0
    /\ LET Obj(pairs) ==
               [k \in {e[1] : e \in {x \in pairs : x[2].t # "undef"}} |->
                  (CHOOSE e \in pairs : e[1] = k)[2]]
           Row(type, obj) ==
               <<[id |-> "a", email_addr |-> "a@example.com",
                  calendar_id |-> "calA", sub_status |-> "active",
                  typeof_contents |-> type, contents |-> obj],
                 InitialRows[2]>>
           Kinds == <<Undefined, Str(<<"Y">>), Str(<<"b">>)>>
           Sunsets == <<Undefined, Str(<<"o", "n">>), [t |-> "num", v |-> 1]>>
           Days == <<Undefined, Str(<<>>), Str(<<"2">>), Str(<<"x">>),
                     [t |-> "num", v |-> 2]>>
           Months == <<Undefined, Str(<<>>), Str(<<"1">>)>>
           Years == <<Undefined, Str(<<>>), Str(<<"2", "0", "2", "0">>),
                      Str(<<"y">>)>>
           Packed == <<Undefined, Str(<<>>),
                       Str(<<"2", "0", "2", "0", "-", "1", "-", "3">>),
                       Str(<<"2", "0", "2", "0", "-", "0", "1", "-", "0", "4">>)>>
           Second == << {},
                        {<<Key("x", 2), Str(FormatDate(0))>>},
                        {<<Key("y", 2), Str(<<"1", "9", "9", "0">>)>>,
                         <<Key("m", 2), Str(<<"5">>)>>,
                         <<Key("d", 2), Str(<<>>)>>} >>
       IN  \/ /\ now \in {StartDay, StartDay + DaysPerWeek,
                           StartDay + 2 * DaysPerWeek}
              /\ \E day \in 0..MaxAnchorDay, k \in DOMAIN Kinds,
                    ss \in DOMAIN Sunsets, pad \in BOOLEAN :
                    LET m0 == day \div DaysPerMonth
                        Field(n) == IF pad THEN Pad2(n) ELSE NumStr(n)
                    IN  yahrzeit = Row("object", Obj(
                          {<<Key("y", 1), Str(NumStr(BaseYear + (m0 \div MonthsPerYear)))>>,
                           <<Key("m", 1), Str(Field((m0 % MonthsPerYear) + 1))>>,
                           <<Key("d", 1), Str(Field((day % DaysPerMonth) + 1))>>,
                           <<Key("x", 2), Str(FormatDate(day))>>,
                           <<Key("t", 1), Kinds[k]>>, <<Key("t", 2), Kinds[k]>>,
                           <<Key("s", 1), Sunsets[ss]>>,
                           <<Key("s", 2), Sunsets[ss]>>}))
           \/ /\ now = StartDay
              /\ \E d \in DOMAIN Days, m \in DOMAIN Months, y \in DOMAIN Years,
                    x \in DOMAIN Packed, e \in DOMAIN Second :
                    yahrzeit = Row("object", Obj(
                          {<<Key("d", 1), Days[d]>>, <<Key("m", 1), Months[m]>>,
                           <<Key("y", 1), Years[y]>>, <<Key("x", 1), Packed[x]>>}
                            \cup Second[e]))
           \/ /\ now = StartDay
              /\ \E type \in {"null", "string"} : yahrzeit = Row(type, <<>>)
    /\ yahrzeit_optout = {}
    /\ yahrzeit_sent7 = <<>>
    /\ sentLog = <<>>
    /\ lockfile = 0
    /\ subs = [p \in Procs |-> <<>>]
    /\ cfgs = [p \in Procs |-> <<>>]
    /\ yahrzeit_sent1 = <<>>
    /\ yahrzeit_atime = <<>>
    /\ delivered = <<>>
    /\ pc = [p \in Procs |-> "idle"]
    /\ argv = [p \in Procs |-> NoArgv]
    /\ today = [p \in Procs |-> NoDate]
    /\ rows = [p \in Procs |-> <<>>]
    /\ optout = [p \in Procs |-> {}]
    /\ sent7 = [p \in Procs |-> {}]
    /\ sent1 = [p \in Procs |-> {}]
    /\ toSend = [p \in Procs |-> <<>>]
    /\ idx = [p \in Procs |-> 0]
    /\ status = [p \in Procs |-> <<>>]
    /\ numSent = [p \in Procs |-> 0]

SpecEntries == InitEntries /\ [][NextSelect]_vars

(***************************************************************************)
(* The compaction of the stored payloads (one-off migration script)        *)
(***************************************************************************)
\* compactJsonItem: a slot whose d, m and y are non-empty strings gets the
\* packed date built from them (pad4 and pad2 of a field that has not the
\* full width; a field that is not a number renders as NaN) and loses the
\* three fields; the kind is cut to its first letter in lower case and the
\* sunset flag becomes the number 1 or 0
compactJsonItem(obj, num) ==
    LET yy == Get(obj, Key("y", num))
        mm == Get(obj, Key("m", num))
        dd == Get(obj, Key("d", num))
        pad(n, w) ==
            IF n = NaN THEN <<"N", "a", "N">>
            ELSE IF Len(NumStr(n)) >= w THEN NumStr(n)
            ELSE [i \in 1..(w - Len(NumStr(n))) |-> "0"] \o NumStr(n)
        yy4 == IF Len(yy.v) = 4 THEN yy.v ELSE pad(ToNumber(yy.v), 4)
        mm2 == IF Len(mm.v) = 2 THEN mm.v ELSE pad(ToNumber(mm.v), 2)
        dd2 == IF Len(dd.v) = 2 THEN dd.v ELSE pad(ToNumber(dd.v), 2)
        o1 == IF ~empty(dd) /\ ~empty(mm) /\ ~empty(yy)
              THEN (Key("x", num) :> Str(yy4 \o <<"-">> \o mm2 \o <<"-">> \o dd2))
                     @@ [k \in DOMAIN obj \ {Key("y", num), Key("m", num),
                                             Key("d", num)} |-> obj[k]]
              ELSE obj
        anniversaryType == Get(o1, Key("t", num))
        toLowerCase(c) == CASE c = "Y" -> "y" [] c = "B" -> "b"
                            [] c = "A" -> "a" [] c = "O" -> "o" [] OTHER -> c
        o2 == IF anniversaryType.t = "str" /\ anniversaryType.v # <<>>
              THEN (Key("t", num) :> Str(<<toLowerCase(anniversaryType.v[1])>>))
                     @@ o1
              ELSE o1
        sunset == Get(o2, Key("s", num))
        one == \/ sunset.t = "str" /\ sunset.v = <<"o", "n">>
               \/ sunset.t = "str" /\ ToNumber(sunset.v) = 1
               \/ sunset.t = "num" /\ sunset.v = 1
    IN  IF sunset.t = "undef" THEN o2
        ELSE (Key("s", num) :> [t |-> "num", v |-> IF one THEN 1 ELSE 0]) @@ o2

\* compactJsonToSave: every slot up to the greatest one, in order
compactJsonToSave(obj) ==
    LET maxId == getMaxYahrzeitId(obj)
        RECURSIVE upTo(_)
        upTo(i) == IF i = 0 THEN obj ELSE compactJsonItem(upTo(i - 1), i)
    IN  upTo(maxId)

\* main of the migration: the payload of every active subscription that has
\* no em gets the address of the subscription as em and is compacted and
\* written back, row after row; reading em of a payload that is not an
\* object throws and ends the script
Migrate ==
    /\ program = "yahrzeit"
    /\ \A p \in Procs : pc[p] = "idle"
    /\ LET Active(k) == yahrzeit[k].sub_status = "active"
           bad == {k \in DOMAIN yahrzeit :
                      Active(k) /\ yahrzeit[k].typeof_contents # "object"}
           Todo(k) == /\ Active(k)
                      /\ \A j \in bad : k < j
                      /\ Key("em", 0) \notin DOMAIN yahrzeit[k].contents
       IN  /\ \E k \in DOMAIN yahrzeit : Todo(k)
           /\ yahrzeit' =
                 [k \in DOMAIN yahrzeit |->
                    IF Todo(k)
                    THEN [yahrzeit[k] EXCEPT !.contents =
                            compactJsonToSave(
                              (Key("em", 0) :> Str(<<yahrzeit[k].email_addr>>))
                                @@ yahrzeit[k].contents)]
                    ELSE yahrzeit[k]]
    /\ UNCHANGED <<now, faults, yahrzeit_optout, yahrzeit_sent7, yahrzeit_sent1,
                   yahrzeit_atime, delivered, pc, locals, wstate>>

SpecCompact == InitEntries /\ [][Migrate \/ NextSelect]_vars

(***************************************************************************)
(* The gate of the weekly digest, over weekdays and holidays               *)
(***************************************************************************)
InitGate ==
    /\ program = "weekly"
    /\ QueuesIdle
    /\ prevCfg = [p \in Procs |-> Undefined]
    /\ prevSubjAndBody = [p \in Procs |-> Undefined]
    /\ now \in FirstGateDay..(FirstGateDay + MaxGateDays - 1)
    /\ faults = 0
    /\ yahrzeit = InitialRows
    /\ yahrzeit_optout = {}
    /\ yahrzeit_sent7 = <<>>
    /\ sentLog = <<>>
    /\ lockfile = 0
    /\ subs = [p \in Procs |-> <<>>]
    /\ cfgs = [p \in Procs |-> <<>>]
    /\ yahrzeit_sent1 = <<>>
    /\ yahrzeit_atime = <<>>
    /\ delivered = <<>>
    /\ pc = [p \in Procs |-> "idle"]
    /\ argv = [p \in Procs |-> NoArgv]
    /\ today = [p \in Procs |-> NoDate]
    /\ rows = [p \in Procs |-> <<>>]
    /\ optout = [p \in Procs |-> {}]
    /\ sent7 = [p \in Procs |-> {}]
    /\ sent1 = [p \in Procs |-> {}]
    /\ toSend = [p \in Procs |-> <<>>]
    /\ idx = [p \in Procs |-> 0]
    /\ status = [p \in Procs |-> <<>>]
    /\ numSent = [p \in Procs |-> 0]

\* module load of one invocation of the weekly digest
StartGate ==
    /\ pc[1] = "idle"
    /\ WStart(1)

SpecGate == InitGate /\ [][StartGate \/ WLoadSubs(1)]_vars

(***************************************************************************)
(* The reading of the sent log by one invocation of the weekly digest      *)
(***************************************************************************)
\* lines found in a sent log: what writeLogLine writes for an accepted and
\* for a refused message, whole or cut short by a crash, and the empty line
SampleLines ==
    { <<"m", ":", "1", ":", "n", "@", "x", ":", "1", "0">>,
      <<"m", ":", "0", ":", "n", "@", "x", ":", "1", "0">>,
      <<"m", ":", "1", ":", "j", "@", "x", ":", "7">>,
      <<"m", ":", "0", ":", "q", "@", "x", ":", "N", "o", "+", "W">>,
      <<"m", ":", "1", ":", "q", "@", "x">>,
      <<"m", ":", "1", ":", "j", "@">>,
      <<"m", ":", "1", ":">>,
      <<"m", ":", "1">>,
      <<"m">>,
      <<>> }

\* a Thursday of the first or of the second week; no sent log, or the log
\* of the first week with up to MaxLogLines lines
InitLog ==
    /\ program = "weekly"
    /\ QueuesIdle
    /\ prevCfg = [p \in Procs |-> Undefined]
    /\ prevSubjAndBody = [p \in Procs |-> Undefined]
    /\ now \in {WeeklyStartDay + 1, WeeklyStartDay + 1 + DaysPerWeek}
    /\ faults = 0
    /\ yahrzeit = InitialRows
    /\ yahrzeit_optout = {}
    /\ yahrzeit_sent7 = <<>>
    /\ sentLog \in {<<>>} \cup
          { [f \in {Friday(WeeklyStartDay + 1)} |-> lines] :
              lines \in UNION {[1..n -> SampleLines] : n \in 0..MaxLogLines} }
    /\ lockfile = 0
    /\ subs = [p \in Procs |-> <<>>]
    /\ cfgs = [p \in Procs |-> <<>>]
    /\ yahrzeit_sent1 = <<>>
    /\ yahrzeit_atime = <<>>
    /\ delivered = <<>>
    /\ pc = [p \in Procs |-> "idle"]
    /\ argv = [p \in Procs |-> NoArgv]
    /\ today = [p \in Procs |-> NoDate]
    /\ rows = [p \in Procs |-> <<>>]
    /\ optout = [p \in Procs |-> {}]
    /\ sent7 = [p \in Procs |-> {}]
    /\ sent1 = [p \in Procs |-> {}]
    /\ toSend = [p \in Procs |-> <<>>]
    /\ idx = [p \in Procs |-> 0]
    /\ status = [p \in Procs |-> <<>>]
    /\ numSent = [p \in Procs |-> 0]

\* main up to the deletion of the addresses of the sent log from subs
SpecLog ==
    InitLog /\ [][StartGate \/ WLoadSubs(1) \/ WLoadSentLog(1)]_vars

(***************************************************************************)
(* The anniversary engine run once a day                                   *)
(***************************************************************************)
\* number of days after the first on which the engine is run
MaxDailyDays == 7
FirstDailyDay == StartDay - DaysPerWeek

\* The table is that of InitialRows, or the same with the payload of
\* subscription a come back as null; there is no opt-out and no ledger row
InitDaily ==
    /\ program = "yahrzeit"
    /\ QueuesIdle
    /\ prevCfg = [p \in Procs |-> Undefined]
    /\ prevSubjAndBody = [p \in Procs |-> Undefined]
    /\ now = FirstDailyDay
    /\ faults = 0
    /\ yahrzeit \in {InitialRows,
                     [InitialRows EXCEPT ![1].typeof_contents = "null",
                                         ![1].contents = <<>>]}
    /\ yahrzeit_optout = {}
    /\ yahrzeit_sent7 = <<>>
    /\ yahrzeit_sent1 = <<>>
    /\ yahrzeit_atime = <<>>
    /\ sentLog = <<>>
    /\ lockfile = 0
    /\ subs = [p \in Procs |-> <<>>]
    /\ cfgs = [p \in Procs |-> <<>>]
    /\ delivered = <<>>
    /\ pc = [p \in Procs |-> "idle"]
    /\ argv = [p \in Procs |-> NoArgv]
    /\ today = [p \in Procs |-> NoDate]
    /\ rows = [p \in Procs |-> <<>>]
    /\ optout = [p \in Procs |-> {}]
    /\ sent7 = [p \in Procs |-> {}]
    /\ sent1 = [p \in Procs |-> {}]
    /\ toSend = [p \in Procs |-> <<>>]
    /\ idx = [p \in Procs |-> 0]
    /\ status = [p \in Procs |-> <<>>]
    /\ numSent = [p \in Procs |-> 0]

\* the run of the day has ended; the next day begins
NextDay ==
    /\ pc[1] \in Halted \ {"idle"}
    /\ now < FirstDailyDay + MaxDailyDays
    /\ now' = now + 1
    /\ pc' = [pc EXCEPT ![1] = "idle"]
    /\ UNCHANGED <<faults, tables, delivered, locals, wstate>>

\* cron starts the program every day and Node runs every continuation of a
\* run that has not ended: until the run of the last day has ended, the
\* invocation moves on to its next position
\* The scheduler starts the run of the day without --force and --date, and
\* no query, no send and no INSERT of a run fails.
SpecDaily ==
    /\ InitDaily
    /\ [][\/ pc[1] = "idle" /\ Launch(1, NoArgv)
          \/ NextDay
          \/ QueryRows(1) \/ LoadOptOut(1) \/ LoadSent7(1) \/ LoadSent1(1)
          \/ Compose(1) \/ SendOk(1) \/ InsertOk(1) \/ UpdateAtime(1)]_vars
    /\ WF_pc(/\ ~(pc[1] \in Halted \ {"idle"}
                  /\ now = FirstDailyDay + MaxDailyDays)
             /\ \E v \in Halted \cup {"query", "optout", "sent7", "sent1",
                                      "compose", "send", "insert", "atime"} :
                    pc' = [pc EXCEPT ![1] = v])

(***************************************************************************)
(* The composition of the weekly digest, over tables of subscribers        *)
(***************************************************************************)
\* Subscribers of two places: New York by zip code, and Jerusalem by
\* geonameid and by its legacy city name; one of each place has settings of
\* its own (candles 30 minutes before sunset, havdalah after 50 minutes)
ComposeRows ==
    { ShabbatRows[1],
      ShabbatRows[2],
      ShabbatRow(<<"l", "@", "x">>, "id5", <<>>, 0, <<"J", "+", "M">>),
      [ShabbatRow(<<"m", "@", "x">>, "id6", <<"1", "0">>, 0, <<>>)
         EXCEPT !.email_sundown_candles = 30],
      [ShabbatRow(<<"k", "@", "x">>, "id7", <<>>, 7, <<>>)
         EXCEPT !.email_candles_havdalah = [t |-> "num", v |-> 50]] }

\* hebcal_shabbat_email has up to three of them, in any order; the digest is
\* run on a Thursday out of the season of the year-at-a-glance note or on
\* the Thursday after it, which is in the season
InitCompose ==
    /\ program = "weekly"
    /\ now \in {WeeklyStartDay + 1, WeeklyStartDay + 1 + DaysPerWeek}
    /\ faults = 0
    /\ \E n \in 1..3 : \E table \in [1..n -> ComposeRows] :
          /\ \A i, j \in 1..n : table[i] = table[j] => i = j
          /\ hebcal_shabbat_email = table
    /\ sqsQueue = [q \in {"unsub", "bounce"} |-> {}]
    /\ qpc = "idle"
    /\ queueURL = "unsub"
    /\ Messages = <<>>
    /\ msgIndex = 0
    /\ hebcal_shabbat_bounce = <<>>
    /\ logStream = <<>>
    /\ prevCfg = [p \in Procs |-> Undefined]
    /\ prevSubjAndBody = [p \in Procs |-> Undefined]
    /\ yahrzeit = InitialRows
    /\ yahrzeit_optout = {}
    /\ yahrzeit_sent7 = <<>>
    /\ yahrzeit_sent1 = <<>>
    /\ yahrzeit_atime = <<>>
    /\ sentLog = <<>>
    /\ lockfile = 0
    /\ subs = [p \in Procs |-> <<>>]
    /\ cfgs = [p \in Procs |-> <<>>]
    /\ delivered = <<>>
    /\ pc = [p \in Procs |-> "idle"]
    /\ argv = [p \in Procs |-> NoArgv]
    /\ today = [p \in Procs |-> NoDate]
    /\ rows = [p \in Procs |-> <<>>]
    /\ optout = [p \in Procs |-> {}]
    /\ sent7 = [p \in Procs |-> {}]
    /\ sent1 = [p \in Procs |-> {}]
    /\ toSend = [p \in Procs |-> <<>>]
    /\ idx = [p \in Procs |-> 0]
    /\ status = [p \in Procs |-> <<>>]
    /\ numSent = [p \in Procs |-> 0]

\* one invocation of the digest
SpecCompose == InitCompose /\ [][StartGate \/ WStep(1)]_vars

(***************************************************************************)
(* The reader of the unsubscribe and bounce queues                         *)
(***************************************************************************)
\* MaxNumberOfMessages of a receive request (10 in the program)
MaxNumberOfMessages == 2

\* A queue message.  Body is "json" for a body that parses, "" for a message
\* without body and anything else for a body JSON.parse rejects; emailId is
\* the id in the destination shabbat-unsubscribe+<id>@hebcal.com ("" for
\* none); address is the sender of an unsubscribe request or the recipient
\* that bounced or complained; reason is what getStdReason finds in a bounce
SqsMessage(id, body, type, emailId, address, bounceType, reason) ==
    [MessageId |-> id, Body |-> body, notificationType |-> type,
     emailId |-> emailId, address |-> address, bounceType |-> bounceType,
     reason |-> reason]

UnsubMessages ==
    { SqsMessage("u1", "json", "Received", "id1", <<"n", "@", "x">>, "", ""),
      SqsMessage("u2", "json", "Received", "", <<"s", "@", "x">>, "", ""),
      SqsMessage("u3", "", "", "", <<>>, "", ""),
      SqsMessage("u4", "{", "", "", <<>>, "", "") }

BounceMessages ==
    { SqsMessage("b1", "json", "Bounce", "", <<"n", "@", "x">>, "Transient",
                 "unknown"),
      SqsMessage("b2", "json", "Complaint", "", <<"j", "@", "x">>, "", ""),
      SqsMessage("b3", "json", "Delivery", "", <<"q", "@", "x">>, "", ""),
      SqsMessage("b4", "", "", "", <<>>, "", "") }

\* unsubscribe up to its last await: the row is looked up by the id, or by
\* the address when there is no id; the code logged, the table after the
\* UPDATE, and the mail handed to the transport (errorMail, or the
\* confirmation)
unsubscribe(table, emailAddress, emailId) ==
    LET found == SelectSeq(table, LAMBDA r :
                     IF emailId # "" THEN r.email_id = emailId
                     ELSE r.email_address = emailAddress)
    IN  IF found = <<>>
        THEN [code |-> "unsub_notfound", table |-> table,
              mail |-> <<"Unable to process your message", emailAddress>>]
        ELSE IF found[1].email_status = "unsubscribed"
        THEN [code |-> "unsub_twice", table |-> table,
              mail |-> <<"Unable to process your message",
                         found[1].email_address>>]
        ELSE [code |-> "unsub",
              table |-> [k \in DOMAIN table |->
                           IF table[k].email_id = found[1].email_id
                           THEN [table[k] EXCEPT !.email_status = "unsubscribed"]
                           ELSE table[k]],
              mail |-> <<"You have been unsubscribed from hebcal",
                         found[1].email_address>>]

\* the row readBounceQueue inserts for a bounce or a complaint
BounceRow(message) ==
    [email_address |-> message.address,
     std_reason |->
        IF message.notificationType = "Complaint" THEN "amzn_abuse"
        ELSE IF message.reason = "unknown" /\ message.bounceType = "Transient"
             THEN message.bounceType
             ELSE message.reason]

\* the message has a body that parses and a type the loop acts on
Acted(q, message) ==
    /\ message.Body = "json"
    /\ message.notificationType \in
          (IF q = "unsub" THEN {"Received"} ELSE {"Bounce", "Complaint"})

\* main is started: readUnsubQueue comes first (one run on each day)
QStart ==
    /\ program = "bounce_sqs"
    /\ qpc \in {"idle", "closed", "failed"}
    /\ now < StartDay + MaxTicks
    /\ now' = now + 1
    /\ qpc' = "poll"
    /\ queueURL' = "unsub"
    /\ Messages' = <<>>
    /\ msgIndex' = 0
    /\ UNCHANGED <<faults, tables, delivered, pc, locals, program, sentLog,
                   lockfile, subs, cfgs, cache, sqsQueue, hebcal_shabbat_bounce,
                   hebcal_shabbat_email, logStream>>

\* ReceiveMessageCommand answers with up to MaxNumberOfMessages messages
QReceive ==
    /\ program = "bounce_sqs"
    /\ qpc = "poll"
    /\ \E n \in 1..MaxNumberOfMessages :
         \E batch \in [1..n -> sqsQueue[queueURL]] :
            /\ \A i, j \in 1..n : batch[i] = batch[j] => i = j
            /\ Messages' = batch
    /\ msgIndex' = 1
    /\ qpc' = "loop"
    /\ UNCHANGED <<now, faults, tables, delivered, pc, locals, program, sentLog,
                   lockfile, subs, cfgs, cache, sqsQueue, queueURL,
                   hebcal_shabbat_bounce, hebcal_shabbat_email, logStream>>

\* ReceiveMessageCommand answers without messages: the queue is done;
\* readBounceQueue follows readUnsubQueue, and main resolves after it
QEmpty ==
    /\ program = "bounce_sqs"
    /\ qpc = "poll"
    /\ sqsQueue[queueURL] = {}
    /\ IF queueURL = "unsub"
       THEN queueURL' = "bounce" /\ qpc' = "poll"
       ELSE queueURL' = queueURL /\ qpc' = "closed"
    /\ UNCHANGED <<now, faults, tables, delivered, pc, locals, program, sentLog,
                   lockfile, subs, cfgs, cache, sqsQueue, Messages, msgIndex,
                   hebcal_shabbat_bounce, hebcal_shabbat_email, logStream>>

\* one turn of the for loop over the batch: a message without body is
\* skipped; JSON.parse of a body that does not parse throws; a bounce or a
\* complaint is inserted into hebcal_shabbat_bounce and logged, any other
\* notification of the bounce queue is only logged; an unsubscribe request
\* goes through unsubscribe
QProcess ==
    /\ program = "bounce_sqs"
    /\ qpc = "loop"
    /\ msgIndex <= Len(Messages)
    /\ LET message == Messages[msgIndex]
           u == unsubscribe(hebcal_shabbat_email, message.address,
                            message.emailId)
       IN  IF message.Body \notin {"", "json"}
           THEN /\ qpc' = "failed"
                /\ UNCHANGED <<msgIndex, hebcal_shabbat_bounce,
                               hebcal_shabbat_email, logStream, delivered>>
           ELSE /\ qpc' = qpc
                /\ msgIndex' = msgIndex + 1
                /\ hebcal_shabbat_bounce' =
                     IF queueURL = "bounce" /\ Acted(queueURL, message)
                     THEN Append(hebcal_shabbat_bounce, BounceRow(message))
                     ELSE hebcal_shabbat_bounce
                /\ hebcal_shabbat_email' =
                     IF queueURL = "unsub" /\ Acted(queueURL, message)
                     THEN u.table ELSE hebcal_shabbat_email
                /\ logStream' =
                     IF message.Body = "" THEN logStream
                     ELSE IF queueURL = "bounce"
                     THEN Append(logStream, <<"bounce", message.MessageId>>)
                     ELSE IF Acted(queueURL, message)
                     THEN Append(logStream, <<"subscribers", u.code>>)
                     ELSE logStream
                /\ delivered' =
                     IF queueURL = "unsub" /\ Acted(queueURL, message)
                     THEN AddOne(delivered, u.mail) ELSE delivered
    /\ UNCHANGED <<now, faults, tables, pc, locals, program, sentLog,
                   lockfile, subs, cfgs, cache, sqsQueue, queueURL, Messages>>

\* QThrows with the messages the loop is through deleted as they were done
QThrowsDeletingDone ==
    /\ program = "bounce_sqs"
    /\ faults < MaxFaults
    /\ faults' = faults + 1
    /\ qpc' = "failed"
    /\ qpc = "loop"
    /\ msgIndex <= Len(Messages)
    /\ Acted(queueURL, Messages[msgIndex])
    /\ sqsQueue' = [sqsQueue EXCEPT ![queueURL] =
                      @ \ {Messages[j] : j \in 1..(msgIndex - 1)}]
    /\ UNCHANGED <<now, tables, delivered, pc, locals, program, sentLog,
                   lockfile, subs, cfgs, cache, queueURL, Messages, msgIndex,
                   hebcal_shabbat_bounce, hebcal_shabbat_email, logStream>>

\* an awaited call rejects: the receive request, the INSERT of a bounce, or
\* in unsubscribe the SELECT, the UPDATE (after the line was logged) or the
\* send (after the UPDATE); the exception rejects main and the process exits
\* with status 1
QThrows ==
    /\ program = "bounce_sqs"
    /\ faults < MaxFaults
    /\ faults' = faults + 1
    /\ qpc' = "failed"
    /\ \/ /\ qpc = "poll"
          /\ UNCHANGED <<hebcal_shabbat_email, logStream>>
       \/ /\ qpc = "loop"
          /\ msgIndex <= Len(Messages)
          /\ Acted(queueURL, Messages[msgIndex])
          /\ LET message == Messages[msgIndex]
                 u == unsubscribe(hebcal_shabbat_email, message.address,
                                  message.emailId)
             IN  \E call \in {"query", "update", "send"} :
                    /\ call # "query" => queueURL = "unsub"
                    /\ call = "update" => u.code = "unsub"
                    /\ logStream' =
                         IF call = "query" THEN logStream
                         ELSE Append(logStream, <<"subscribers", u.code>>)
                    /\ hebcal_shabbat_email' =
                         IF call = "send" THEN u.table ELSE hebcal_shabbat_email
    /\ UNCHANGED <<now, tables, delivered, pc, locals, program, sentLog,
                   lockfile, subs, cfgs, cache, sqsQueue, queueURL, Messages, msgIndex,
                   hebcal_shabbat_bounce>>

\* after the loop: a DeleteMessageCommand for every message of the batch,
\* all awaited together, then the next receive request
QDelete ==
    /\ program = "bounce_sqs"
    /\ qpc = "loop"
    /\ msgIndex > Len(Messages)
    /\ sqsQueue' = [sqsQueue EXCEPT ![queueURL] = @ \ Range(Messages)]
    /\ Messages' = <<>>
    /\ msgIndex' = 0
    /\ qpc' = "poll"
    /\ UNCHANGED <<now, faults, tables, delivered, pc, locals, program, sentLog,
                   lockfile, subs, cfgs, cache, queueURL, hebcal_shabbat_bounce,
                   hebcal_shabbat_email, logStream>>

\* one of the DeleteMessageCommands rejects: Promise.all rejects and main
\* with it, while the other deletions may have been done
QDeleteFails ==
    /\ program = "bounce_sqs"
    /\ qpc = "loop"
    /\ msgIndex > Len(Messages)
    /\ faults < MaxFaults
    /\ faults' = faults + 1
    /\ \E deleted \in SUBSET Range(Messages) :
          /\ deleted # Range(Messages)
          /\ sqsQueue' = [sqsQueue EXCEPT ![queueURL] = @ \ deleted]
    /\ qpc' = "failed"
    /\ UNCHANGED <<now, tables, delivered, pc, locals, program, sentLog,
                   lockfile, subs, cfgs, cache, queueURL, Messages, msgIndex,
                   hebcal_shabbat_bounce, hebcal_shabbat_email, logStream>>

InitQueue ==
    /\ program = "bounce_sqs"
    /\ now = StartDay
    /\ faults = 0
    /\ sqsQueue \in [{"unsub", "bounce"} -> SUBSET (UnsubMessages \cup BounceMessages)]
    /\ sqsQueue["unsub"] \subseteq UnsubMessages
    /\ sqsQueue["bounce"] \subseteq BounceMessages
    /\ qpc = "idle"
    /\ queueURL = "unsub"
    /\ Messages = <<>>
    /\ msgIndex = 0
    /\ hebcal_shabbat_bounce = <<>>
    /\ hebcal_shabbat_email = ShabbatRows
    /\ logStream = <<>>
    /\ prevCfg = [p \in Procs |-> Undefined]
    /\ prevSubjAndBody = [p \in Procs |-> Undefined]
    /\ yahrzeit = <<>>
    /\ yahrzeit_optout = {}
    /\ yahrzeit_sent7 = <<>>
    /\ yahrzeit_sent1 = <<>>
    /\ yahrzeit_atime = <<>>
    /\ sentLog = <<>>
    /\ lockfile = 0
    /\ subs = [p \in Procs |-> <<>>]
    /\ cfgs = [p \in Procs |-> <<>>]
    /\ delivered = <<>>
    /\ pc = [p \in Procs |-> "idle"]
    /\ argv = [p \in Procs |-> NoArgv]
    /\ today = [p \in Procs |-> NoDate]
    /\ rows = [p \in Procs |-> <<>>]
    /\ optout = [p \in Procs |-> {}]
    /\ sent7 = [p \in Procs |-> {}]
    /\ sent1 = [p \in Procs |-> {}]
    /\ toSend = [p \in Procs |-> <<>>]
    /\ idx = [p \in Procs |-> 0]
    /\ status = [p \in Procs |-> <<>>]
    /\ numSent = [p \in Procs |-> 0]

SpecQueue ==
    InitQueue /\ [][QStart \/ QReceive \/ QEmpty \/ QProcess \/ QThrows
                      \/ QDelete \/ QDeleteFails]_vars

(***************************************************************************)
(* Properties of the anniversary engine                                    *)
(***************************************************************************)
\* positions inside the for loop of main
Looping == {"compose", "send", "insert"}

\* the ledger table of a lookahead window
Ledger(w) == IF w = 7 THEN yahrzeit_sent7 ELSE yahrzeit_sent1

\* what loadSubsFromDb would return to an invocation with today = t that
\* loaded the tables as they are now
NextSelection(t) ==
    loadSubsFromDb(SelectSeq(yahrzeit, LAMBDA r : r.sub_status = "active"),
                   loadOptOut(yahrzeit_optout),
                   loadRecentSent(yahrzeit_sent7, now),
                   loadRecentSent(yahrzeit_sent1, now), t)

\* row r records the occurrence of candidate c
Records(r, c) == RowIdentity(r) = Identity(c)

\* p has just selected its candidates and has not processed any
JustSelected(p) == pc[p] \in {"compose", "atime"} /\ idx[p] = 1

\* C1 as stated: an occurrence recorded by a run with the same today is not
\* selected again under any lookahead window
C1_NeverReselectedAnyWindow ==
    \A p \in Procs : JustSelected(p) =>
        \A k \in DOMAIN toSend[p] :
            ~\E r \in Range(yahrzeit_sent7) \cup Range(yahrzeit_sent1) :
                r.sent_date = today[p] /\ Records(r, toSend[p][k])

\* C1 (amended): an occurrence recorded in a window's ledger by a run with the
\* same today is not selected again under that window; a row of the 7-day
\* ledger does not keep the 1-day window from selecting the occurrence
C1_NeverReselectedSameWindow ==
    \A p \in Procs : JustSelected(p) =>
        \A k \in DOMAIN toSend[p] :
            ~\E r \in Range(Ledger(toSend[p][k].reminderDays)) :
                r.sent_date = today[p] /\ Records(r, toSend[p][k])

\* C1 witness: a run has selected on a day on which an earlier run recorded an
\* occurrence in the 7-day ledger, and does not select it under 7 days
C1_Witness ==
    \E p \in Procs : JustSelected(p) /\
        \E r \in Range(yahrzeit_sent7) :
            /\ r.sent_date = today[p]
            /\ \A k \in DOMAIN toSend[p] :
                   Records(r, toSend[p][k]) => toSend[p][k].reminderDays = 1

\* table new is table old, or old with one more row whose identity no row
\* of old has that loadRecentSent still loads
InsertsFresh(old, new) ==
    Len(new) > Len(old) =>
        ~\E i \in DOMAIN old :
            /\ now - old[i].sent_date < RetentionDays
            /\ RowIdentity(old[i]) = RowIdentity(new[Len(new)])

\* C2: no step inserts a row into a ledger that already holds, within the
\* retention period, a row of the same identity
C2_NoSecondRecord ==
    [][/\ InsertsFresh(yahrzeit_sent7, yahrzeit_sent7')
       /\ InsertsFresh(yahrzeit_sent1, yahrzeit_sent1')]_vars

\* C2 witness: an occurrence is in both ledgers, and a later run found
\* nothing to send
C2_Witness ==
    \E p \in Procs :
        /\ pc[p] = "atime" /\ idx[p] = 1
        /\ \E r7 \in Range(yahrzeit_sent7), r1 \in Range(yahrzeit_sent1) :
               RowIdentity(r7) = RowIdentity(r1)

\* C3: a run's candidate list holds each (subscription, slot, cycle) once
C3_OncePerRun ==
    \A p \in Procs : \A i, j \in DOMAIN toSend[p] :
        (/\ toSend[p][i].id = toSend[p][j].id
         /\ toSend[p][i].num = toSend[p][j].num
         /\ toSend[p][i].hyear = toSend[p][j].hyear) => i = j

\* C3 witness: a selected occurrence lies in both windows (diff = 0)
C3_Witness ==
    \E p \in Procs : \E k \in DOMAIN toSend[p] :
        toSend[p][k].diff = 0 /\ toSend[p][k].reminderDays = 7

\* C4: a candidate whose send threw has no new row in either ledger and is
\* selected again by a run with the same today
C4_FailedStaysEligible ==
    \A p \in Procs : pc[p] \in Looping \cup {"atime"} =>
        \A k \in DOMAIN toSend[p] : status[p][k] = "failed" =>
            LET c == toSend[p][k]
            IN  /\ \A key \in {<<c.id, c.num, c.hyear>>,
                                <<c.id, c.num, c.hyear, c.hash>>} :
                       /\ (key \in loadRecentSent(yahrzeit_sent7, now))
                            = (key \in sent7[p])
                       /\ (key \in loadRecentSent(yahrzeit_sent1, now))
                            = (key \in sent1[p])
                /\ c \in Range(NextSelection(Today(p)))

\* C4 witness: a send has thrown and the run has gone on
C4_Witness ==
    \E p \in Procs : pc[p] \in Looping \cup {"atime"} /\
        \E k \in DOMAIN toSend[p] : status[p][k] = "failed" /\ idx[p] > k

\* C5 as stated: a run that ends with an error has gone through all its
\* candidates
C5_FailureDoesNotAbort ==
    \A p \in Procs :
        (program = "yahrzeit" /\ pc[p] = "fatal") => toSend[p] = <<>>

\* C6 as stated: a run of the weekly digest that ends with an error has gone
\* through all its subscribers
C6_MailFailureDoesNotAbort ==
    \A p \in Procs :
        (program = "weekly" /\ pc[p] = "fatal") => cfgs[p] = <<>>

\* C7: every row inserted into a ledger is the row of a delivered message;
\* a candidate not yet sent, of a running or of a killed invocation, is
\* selected again by a run with the same today
C7_KillLeavesLedgerConsistent ==
    /\ \A w \in {7, 1} : \A r \in Range(Ledger(w)) :
           r.sent_date >= StartDay => Count(delivered, <<RowIdentity(r), w>>) >= 1
    /\ \A p \in Procs :
           (pc[p] \in Looping \cup {"killed"} /\ today[p] = now) =>
               \A k \in DOMAIN toSend[p] : status[p][k] = "pending" =>
                   toSend[p][k] \in Range(NextSelection(Today(p)))

\* C7 witness: killed in the loop, after a message was recorded and with
\* candidates left
C7_Witness ==
    \E p \in Procs :
        /\ pc[p] = "killed" /\ toSend[p] # <<>> /\ today[p] = now
        /\ \E r \in Range(yahrzeit_sent7) : r.sent_date = now

\* C8: when an invocation is about to compose or send the next message, or
\* is past its loop, no earlier candidate is sent without its ledger write
\* done: the row of a recorded occurrence is in the ledger of its window,
\* the line of a recorded subscriber is in the sent log of the week
C8_WriteBeforeNextSend ==
    \A p \in Procs :
        /\ pc[p] \in {"compose", "send", "atime"} =>
              \A j \in 1..(idx[p] - 1) :
                  /\ status[p][j] \notin {"sent", "pending"}
                  /\ status[p][j] = "recorded" =>
                        \E r \in Range(Ledger(toSend[p][j].reminderDays)) :
                            Records(r, toSend[p][j]) /\ r.sent_date = today[p]
        /\ pc[p] \in {"w_mail", "w_end"} =>
              \A j \in 1..(idx[p] - 1) :
                  /\ status[p][j] \notin {"sent", "refused", "pending"}
                  /\ status[p][j] = "recorded" =>
                        LogLine(cfgs[p][j],
                                [messageId |-> MessageId,
                                 response |-> CHOOSE r \in Responses : Accepted(r)])
                            \in Range(sentLog[Friday(today[p])])

\* C8 witness: an invocation of either program is at its second candidate
\* with the first one recorded
C8_Witness ==
    \E p \in Procs :
        /\ pc[p] \in {"send", "w_mail"}
        /\ idx[p] = 2
        /\ status[p][1] = "recorded"

\* C9 as stated: no address is mailed by both of two overlapping invocations
\* of the weekly digest that run without --force
C9_NoAddressMailedByBoth ==
    (program = "weekly" /\ faults = 0) =>
        \A k1, k2 \in DOMAIN delivered :
            (k1[1] = k2[1] /\ k1[2] = k2[2] /\ ~k1[4] /\ ~k2[4]) => k1[3] = k2[3]

\* C11 as stated: an invocation of the weekly digest that finds the lock
\* held by another one does not go on to the dispatch loop
C11_ContendedInvocationFails ==
    [][\A p \in Procs :
          pc[p] = "w_blocked" => pc'[p] \in {"w_blocked", "fatal", "killed", "w_rejected"}]_vars

\* C12 as stated: when flock reports an error mainInner is not started
C12_MainInnerNotStarted ==
    \A p \in Procs : pc[p] = "w_rejected" => idx[p] = 0 /\ cfgs[p] = <<>>

\* the rows of yahrzeit_optout in force
ActiveOptOuts == {r \in yahrzeit_optout : r.deactivated = 1}

\* the candidates for entry num of subscription id in a list
OfSlot(list, id, num) ==
    SelectSeq(list, LAMBDA c : c.id = id /\ c.num = num)

\* what invocation 1 would have selected had it loaded the opt-out table
\* oo in place of yahrzeit_optout
SelectionWith(oo) ==
    loadSubsFromDb(rows[1], loadOptOut(oo), sent7[1], sent1[1], Today(1))

\* C13: while an opt-out in force without a hash exists for an entry of a
\* subscription, loadSubsFromDb selects no occurrence of that entry, on
\* every day, for every Hebrew year and under both windows
C13_SlotOptOutSuppresses ==
    JustSelected(1) =>
        \A r \in ActiveOptOuts :
            (r.name_hash = SqlNull /\ r.num # 0) =>
                OfSlot(toSend[1], r.email_id, r.num) = <<>>

\* C13 witness: the selection has been made with the opt-out of a.2 in
\* force, on a day on which a.2 is selected without it
C13_Witness ==
    /\ JustSelected(1)
    /\ OptOutRow("a", 2, SqlNull) \in yahrzeit_optout
    /\ OfSlot(SelectionWith(yahrzeit_optout \ {OptOutRow("a", 2, SqlNull)}),
              "a", 2) # <<>>

\* C14: while an opt-out in force exists for entry 0 of a subscription,
\* loadSubsFromDb selects no occurrence of any entry of that subscription,
\* and it selects for the other subscriptions what it selects without the
\* opt-out
C14_SubscriptionOptOutSuppresses ==
    LET ids == {r.email_id : r \in {x \in ActiveOptOuts :
                                       x.num = 0 /\ x.name_hash = SqlNull}}
        NotOf(list) == SelectSeq(list, LAMBDA c : c.id \notin ids)
    IN  JustSelected(1) =>
            /\ \A k \in DOMAIN toSend[1] : toSend[1][k].id \notin ids
            /\ NotOf(toSend[1])
                 = NotOf(SelectionWith({x \in yahrzeit_optout : x.num # 0}))

\* C14 witness: the selection has been made with the opt-out of
\* subscription a in force, on a day on which entries of a are selected
\* without it and an entry of b is selected
C14_Witness ==
    /\ JustSelected(1)
    /\ OptOutRow("a", 0, SqlNull) \in yahrzeit_optout
    /\ \E k \in DOMAIN toSend[1] : toSend[1][k].id = "b"
    /\ \E c \in Range(SelectionWith(yahrzeit_optout \ {OptOutRow("a", 0, SqlNull)})) :
           c.id = "a"

\* C15: an opt-out in force for (subscription, entry, hash K) removes from
\* the selection the candidates of that entry whose hash is K and nothing
\* else: the entry is selected as without the opt-out once an edit of its
\* date or kind has given it another hash, and so is every other entry
C15_KeyedOptOutSuppressesItsKey ==
    JustSelected(1) =>
        \A r \in ActiveOptOuts :
            r.name_hash # SqlNull =>
                toSend[1] = SelectSeq(SelectionWith(yahrzeit_optout \ {r}),
                                LAMBDA c : ~(/\ c.id = r.email_id
                                             /\ c.num = r.num
                                             /\ c.hash = r.name_hash))

\* C15 witness: with the opt-out of a.1 under KeyA1 in force and no other
\* opt-out of a, a.1 has the hash KeyA1 and is left out on a day on which
\* it is selected without the opt-out, while a.3, which has the same hash,
\* is selected
C15_Witness ==
    /\ JustSelected(1)
    /\ OptOutRow("a", 1, KeyA1) \in yahrzeit_optout
    /\ OfSlot(toSend[1], "a", 1) = <<>>
    /\ \E c \in Range(SelectionWith(yahrzeit_optout \ {OptOutRow("a", 1, KeyA1)})) :
           c.id = "a" /\ c.num = 1 /\ c.hash = KeyA1
    /\ \E k \in DOMAIN toSend[1] :
           toSend[1][k].id = "a" /\ toSend[1][k].num = 3 /\ toSend[1][k].hash = KeyA1

C17_WindowEdges ==
    LET Examined ==
        {o \in UNION { {<<i, num, hyear>> :
                            num \in 1..getMaxYahrzeitId(rows[1][i].contents),
                            hyear \in Range(HebYears(today[1]))} :
                        i \in DOMAIN rows[1] } :
            /\ <<rows[1][o[1]].id, 0>> \notin optout[1]
            /\ getYahrzeitDetailForId(rows[1][o[1]].contents, o[2]).t # "null"
            /\ ~skipOptOut(rows[1][o[1]].id,
                           getYahrzeitDetailForId(rows[1][o[1]].contents, o[2]),
                           optout[1])}
    IN
    JustSelected(1) =>
        \A o \in Examined :
            LET row == rows[1][o[1]]
                info0 == getYahrzeitDetailForId(row.contents, o[2])
                observed == ObservedDate(info0.type, o[3], info0.day)
                d == diff(observed, Today(1))
                Sent(L) == AlreadySent(row.id, o[2], o[3], info0.hash,
                                       IF L = 7 THEN sent7[1] ELSE sent1[1])
                Called(L) == L = 7 \/ Sent(7) \/ ~(0 <= d /\ d < 7)
                Selected(L) == \E k \in DOMAIN toSend[1] :
                                  /\ toSend[1][k].id = row.id
                                  /\ toSend[1][k].num = o[2]
                                  /\ toSend[1][k].hyear = o[3]
                                  /\ toSend[1][k].reminderDays = L
            IN  \A L \in {7, 1} :
                    (observed # NoDate /\ ~Sent(L) /\ Called(L)) =>
                        (Selected(L) <=> (0 <= d /\ d < L))

\* C17 witness: an invocation without --date has selected, under the 7-day
\* window, an occurrence observed on the seventh day after today: its diff
\* is 6
C17_Witness ==
    /\ JustSelected(1)
    /\ argv[1].date = NoDate
    /\ \E k \in DOMAIN toSend[1] :
           /\ toSend[1][k].reminderDays = 7
           /\ toSend[1][k].diff = 6
           /\ toSend[1][k].observed = today[1] + 7

\* C18: in runs of the weekly digest one after another, every message a
\* run without --force gets accepted goes to an address that has no line
\* with a status other than 0 in the log of the week; and when no run was
\* cut short and no message refused, no address is mailed twice for a week
\* by runs without --force
C18_OncePerWeek ==
    /\ [](faults = 0 =>
             \A k \in DOMAIN delivered : (Len(k) = 4 /\ ~k[4]) => delivered[k] <= 1)
    /\ [][\A p \in Procs :
             (/\ pc[p] = "w_mail" /\ pc'[p] = "w_log"
              /\ ~argv[p].force
              /\ delivered' # delivered)
               => cfgs[p][idx[p]].email
                    \notin loadSentLog(sentLog, Friday(today[p]))]_vars

\* C18 witness: a later run without --force and not a dry one has read the
\* log of the week and is about to mail; an address an earlier run without
\* --force mailed is not among its subscribers, and another address is
C18_Witness ==
    \E p \in Procs :
        /\ pc[p] = "w_mail" /\ ~argv[p].force /\ ~argv[p].dryrun
        /\ \E k \in DOMAIN delivered :
               /\ Len(k) = 4 /\ ~k[4] /\ k[2] = Friday(today[p])
               /\ delivered[k] = 1
               /\ \A c \in Range(cfgs[p]) : c.email # k[1]

\* C19: for every weekday of today and every assignment of holidays to
\* today and the two days after it, an invocation without --force goes on
\* exactly when today is no holiday and is a Thursday, or a Wednesday
\* before a holiday, or a Tuesday before two holidays; it exits otherwise
C19_SendDayRule ==
    LET dow == DayOfWeek(now)
        c0 == getChagOnDate(now)
        c1 == getChagOnDate(now + 1)
        c2 == getChagOnDate(now + 2)
        send == /\ ~c0
                /\ \/ dow = 4
                   \/ dow = 3 /\ c1
                   \/ dow = 2 /\ c1 /\ c2
    IN  program = "weekly" =>
          /\ pc[1] = "skipped" => ~send
          /\ (pc[1] = "w_subs" /\ ~argv[1].force) => send

\* C19 witness: an invocation without --force has passed the gate on a
\* Tuesday before two holidays
C19_Witness ==
    /\ pc[1] = "w_subs" /\ ~argv[1].force
    /\ DayOfWeek(now) = 2
    /\ getChagOnDate(now + 1) /\ getChagOnDate(now + 2)

\* C20 as stated, for the weekly digest: with or without --force, the
\* subscribers left to mail are those loaded minus the addresses the log of
\* the week records as sent
C20_ForceKeepsDedup ==
    \A p \in Procs :
        pc[p] = "w_flock" =>
            subs[p] = MapDelete(loadSubs(ShabbatRows, <<>>),
                                loadSentLog(sentLog, Friday(today[p])))

\* C21: while an invocation of either program runs with --dryrun, no step
\* hands a message to the transport, inserts a row into yahrzeit_sent7 or
\* yahrzeit_sent1 or changes the sent logs; and when its loop is over it has
\* composed a message for every candidate
C21_DryRunWritesNothing ==
    /\ [](\A p \in Procs :
             (argv[p].dryrun /\ pc[p] \in {"atime", "w_end"}) =>
                 \A k \in DOMAIN status[p] : status[p][k] = "dry")
    /\ [][(\E p \in Procs : argv[p].dryrun) =>
             /\ delivered' = delivered
             /\ yahrzeit_sent7' = yahrzeit_sent7
             /\ yahrzeit_sent1' = yahrzeit_sent1
             /\ sentLog' = sentLog]_vars

\* C21 witness: a dry run of the anniversary engine is past its loop with
\* two candidates or more, on a day on which nothing is in the ledgers
C21_Witness ==
    \E p \in Procs :
        /\ argv[p].dryrun /\ pc[p] = "atime" /\ Len(toSend[p]) >= 2
        /\ yahrzeit_sent7 = <<>> /\ yahrzeit_sent1 = <<>>

\* C22: when an entry of a subscription has its date in the fields d, m and
\* y and another entry has the same calendar date packed in the field x,
\* with the same kind and after-sunset flag, getYahrzeitDetailForId gives
\* both the same date and the same hash, and in every Hebrew year examined
\* the two are selected alike: same years, same observed dates, same windows
C22_EncodingRoundTrip ==
    JustSelected(1) =>
        \A i \in DOMAIN rows[1] :
            LET q == rows[1][i].contents
                slots == 1..getMaxYahrzeitId(q)
                Two(f) == IF Len(f) = 1 THEN <<"0">> \o f ELSE f
                Separate(n) ==
                    /\ Get(q, Key("x", n)).t = "undef"
                    /\ \A f \in {"y", "m", "d"} :
                           /\ Get(q, Key(f, n)).t = "str"
                           /\ Get(q, Key(f, n)).v # <<>>
                Iso(n) == q[Key("y", n)].v \o <<"-">> \o Two(q[Key("m", n)].v)
                            \o <<"-">> \o Two(q[Key("d", n)].v)
                Of(n) == OfSlot(toSend[1], rows[1][i].id, n)
            IN  \A n1, n2 \in slots :
                    (/\ Separate(n1)
                     /\ Get(q, Key("x", n2)).t = "str"
                     /\ Get(q, Key("x", n2)).v = Iso(n1)
                     /\ Get(q, Key("t", n1)) = Get(q, Key("t", n2))
                     /\ Get(q, Key("s", n1)) = Get(q, Key("s", n2)))
                      => /\ getYahrzeitDetailForId(q, n1).t = "sub"
                         /\ getYahrzeitDetailForId(q, n2).t = "sub"
                         /\ getYahrzeitDetailForId(q, n1).day
                              = getYahrzeitDetailForId(q, n2).day
                         /\ getYahrzeitDetailForId(q, n1).hash
                              = getYahrzeitDetailForId(q, n2).hash
                         /\ Len(Of(n1)) = Len(Of(n2))
                         /\ \A k \in DOMAIN Of(n1) :
                                [Of(n1)[k] EXCEPT !.num = n2] = Of(n2)[k]

\* C22 witness: entry 1 of subscription a has its date in fields without
\* leading zeros, entry 2 has the same date packed, both observed after
\* sunset, and both are selected for the same Hebrew year under one hash
C22_Witness ==
    /\ JustSelected(1)
    /\ Get(rows[1][1].contents, Key("m", 1)) = Str(<<"1">>)
    /\ Get(rows[1][1].contents, Key("d", 1)) = Str(<<"3">>)
    /\ Get(rows[1][1].contents, Key("x", 2))
         = Str(<<"2", "0", "2", "0", "-", "0", "1", "-", "0", "3">>)
    /\ Get(rows[1][1].contents, Key("s", 1)) = Str(<<"o", "n">>)
    /\ \E k, l \in DOMAIN toSend[1] :
           /\ toSend[1][k].id = "a" /\ toSend[1][k].num = 1
           /\ toSend[1][l].id = "a" /\ toSend[1][l].num = 2
           /\ toSend[1][k].hyear = toSend[1][l].hyear
           /\ toSend[1][k].hash = toSend[1][l].hash

\* C23: every candidate loadSubsFromDb returns comes from an entry whose
\* year, month and day (the parts of x when x is a string of 10 characters,
\* else the fields y, m and d) are each a string that is not empty and
\* begins with a digit
C23_NoCandidateFromBlankSlot ==
    JustSelected(1) =>
        \A k \in DOMAIN toSend[1] :
            \A i \in DOMAIN rows[1] : rows[1][i].id = toSend[1][k].id =>
                LET q == rows[1][i].contents
                    n == toSend[1][k].num
                    x == Get(q, Key("x", n))
                    parts == IF x.t = "str" /\ Len(x.v) = 10
                             THEN {Str(SubSeq(x.v, 1, 4)), Str(SubSeq(x.v, 6, 7)),
                                   Str(SubSeq(x.v, 9, 10))}
                             ELSE {Get(q, Key(f, n)) : f \in {"y", "m", "d"}}
                IN  \A part \in parts :
                        /\ part.t = "str"
                        /\ part.v # <<>>
                        /\ IsDigit(part.v[1])

\* C23 witness: entry 1 of subscription a has a month and a year and a day
\* that is not a number, entry 2 is complete: entry 2 is selected, entry 1
\* is not
C23_Witness ==
    /\ JustSelected(1)
    /\ Get(rows[1][1].contents, Key("d", 1)) = Str(<<"x">>)
    /\ Get(rows[1][1].contents, Key("m", 1)) = Str(<<"1">>)
    /\ Get(rows[1][1].contents, Key("y", 1)) = Str(<<"2", "0", "2", "0">>)
    /\ Get(rows[1][1].contents, Key("x", 1)) = Undefined
    /\ OfSlot(toSend[1], "a", 1) = <<>>
    /\ OfSlot(toSend[1], "a", 2) # <<>>

\* C24 as stated: no stored payload makes the run end with an error; a
\* subscription whose payload is not an object, or has no complete entry,
\* gives no candidate, and the selection is made for the other rows
C24_MalformedNeverAborts ==
    /\ pc[1] # "fatal"
    /\ JustSelected(1) =>
           \A i \in DOMAIN rows[1] :
               (\/ rows[1][i].typeof_contents # "object"
                \/ getMaxYahrzeitId(rows[1][i].contents) = 0)
                 => \A k \in DOMAIN toSend[1] : toSend[1][k].id # rows[1][i].id

\* C25: in an invocation of either program at most one candidate is
\* started and not finished: the candidates before the position of the loop
\* have their send answered and their ledger write done or failed, and the
\* candidates after it are not started
C25_OneSendInFlight ==
    \A p \in Procs :
        LET Finished == {"recorded", "unrecorded", "failed", "dry", "noted"}
            Started(k) ==
                \/ k < idx[p]
                \/ k = idx[p] /\ pc[p] \in {"send", "insert", "w_mail", "w_log"}
                \/ status[p][k] # "pending"
            InFlight == {k \in DOMAIN status[p] :
                            Started(k) /\ status[p][k] \notin Finished}
        IN  pc[p] \notin Halted => Cardinality(InFlight) <= 1

\* C25 witness: the second of three or more candidates has been sent and
\* its ledger write is awaited; the first is finished, the third not started
C25_Witness ==
    \E p \in Procs :
        /\ pc[p] = "insert" /\ idx[p] = 2 /\ Len(toSend[p]) >= 3
        /\ status[p][1] = "recorded" /\ status[p][3] = "pending"

\* C26 as stated: the 1-day window is tried before the 7-day window, so an
\* occurrence that lies in the 1-day window and has no row in the 1-day
\* ledger is selected under the 1-day window
C26_ShorterWindowFirst ==
    JustSelected(1) =>
        \A k \in DOMAIN toSend[1] :
            (/\ InWindow(toSend[1][k], 1)
             /\ ~AlreadySent(toSend[1][k].id, toSend[1][k].num,
                             toSend[1][k].hyear, toSend[1][k].hash, sent1[1]))
              => toSend[1][k].reminderDays = 1

\* C27: for each window, each entry examined and each Hebrew year examined,
\* the ledger test of makeSubInfo is true exactly when the table of that
\* window has a row less than RetentionDays old for the subscription, the
\* entry and the year that either has no name_hash or has the hash of the
\* entry; and then the occurrence is not selected under that window
C27_LegacyAndKeyedRows ==
    JustSelected(1) =>
        \A i \in DOMAIN rows[1], L \in {7, 1} :
            \A num \in 1..getMaxYahrzeitId(rows[1][i].contents),
               hyear \in Range(HebYears(today[1])) :
                LET info0 == getYahrzeitDetailForId(rows[1][i].contents, num)
                    Holds == \E r \in Range(Ledger(L)) :
                                /\ now - r.sent_date < RetentionDays
                                /\ r.yahrzeit_id = rows[1][i].id
                                /\ r.num = num /\ r.hyear = hyear
                                /\ r.name_hash \in {SqlNull, info0.hash}
                IN  info0.t # "null" =>
                      /\ AlreadySent(rows[1][i].id, num, hyear, info0.hash,
                                     IF L = 7 THEN sent7[1] ELSE sent1[1]) <=> Holds
                      /\ Holds =>
                             \A k \in DOMAIN toSend[1] :
                                 ~(/\ toSend[1][k].id = rows[1][i].id
                                   /\ toSend[1][k].num = num
                                   /\ toSend[1][k].hyear = hyear
                                   /\ toSend[1][k].reminderDays = L)

\* C27 witness: the 7-day ledger has a row without name_hash for b.1 that is
\* RetentionDays - 1 days old and one for a.2 that is RetentionDays days
\* old; b.1 is not selected on a day on which it is with empty ledgers, and
\* a.2 is selected under the 7-day window
C27_Witness ==
    /\ JustSelected(1)
    /\ SentRow("b", SqlNull, 1, 1, now - (RetentionDays - 1)) \in Range(yahrzeit_sent7)
    /\ SentRow("a", SqlNull, 2, 1, now - RetentionDays) \in Range(yahrzeit_sent7)
    /\ OfSlot(toSend[1], "b", 1) = <<>>
    /\ OfSlot(loadSubsFromDb(rows[1], optout[1], {}, {}, Today(1)), "b", 1) # <<>>
    /\ \E k \in DOMAIN toSend[1] :
           /\ toSend[1][k].id = "a" /\ toSend[1][k].num = 2
           /\ toSend[1][k].hyear = 1 /\ toSend[1][k].reminderDays = 7

\* C28 as stated: for every payload, getMaxYahrzeitId is the greatest slot
\* whose day, month and year (as getDateForId resolves them) are all
\* non-empty, and 0 when there is no such slot
C28_MaxIsGreatestCompleteSlot ==
    JustSelected(1) =>
        \A i \in DOMAIN rows[1] :
            LET q == rows[1][i].contents
                Complete(n) == LET ymd == getDateForId(q, n)
                               IN  ~empty(ymd.yy) /\ ~empty(ymd.mm) /\ ~empty(ymd.dd)
                complete == {k[2] : k \in DOMAIN q} \cap {n \in 1..4 : Complete(n)}
            IN  /\ getMaxYahrzeitId(q) \in complete \cup {0}
                /\ \A n \in complete : n <= getMaxYahrzeitId(q)

\* C29: for every entry examined and every Hebrew year h, the selection
\* holds a candidate of the entry for year h exactly when some window admits
\* it and h is the Hebrew year of today or, today lying in the last month
\* (Elul) of its year, the year after it
C29_YearsExamined ==
    JustSelected(1) =>
        \A i \in DOMAIN rows[1] :
            \A num \in 1..getMaxYahrzeitId(rows[1][i].contents),
               h \in 0..((MaxSelectDay \div HebYearLen) + 2) :
                LET row == rows[1][i]
                    info0 == getYahrzeitDetailForId(row.contents, num)
                    thisYear == today[1] \div HebYearLen
                    inElul == (today[1] % HebYearLen) >= HebYearLen - ElulLen
                    expected == h = thisYear \/ (inElul /\ h = thisYear + 1)
                IN  (/\ <<row.id, 0>> \notin optout[1]
                     /\ info0.t # "null"
                     /\ ~skipOptOut(row.id, info0, optout[1]))
                    => ((\E k \in DOMAIN toSend[1] :
                            /\ toSend[1][k].id = row.id
                            /\ toSend[1][k].num = num
                            /\ toSend[1][k].hyear = h)
                        <=> (/\ expected
                             /\ WindowLoop(row, num, info0, h, sent7[1], sent1[1],
                                           Today(1), 1) # <<>>))

\* C29 witness: a run in Elul of Hebrew year 1 selects an occurrence of
\* Hebrew year 2
C29_Witness ==
    /\ JustSelected(1)
    /\ today[1] \div HebYearLen = 1
    /\ (today[1] % HebYearLen) >= HebYearLen - ElulLen
    /\ \E k \in DOMAIN toSend[1] :
           toSend[1][k].hyear = 2 /\ toSend[1][k].observed = 2 * HebYearLen

C32_AtMostOncePerWindow ==
    /\ [](LET Recorded(k) == Cardinality({j \in DOMAIN Ledger(k[2]) :
                                  /\ RowIdentity(Ledger(k[2])[j]) = k[1]
                                  /\ Ledger(k[2])[j].sent_date >= StartDay})
               Due(k) == IF \E p \in Procs :
                               pc[p] = "insert" /\ Msg(toSend[p][idx[p]]) = k
                         THEN 1 ELSE 0
           IN  (/\ program = "yahrzeit"
                /\ \A k \in DOMAIN delivered : Recorded(k) + Due(k) >= delivered[k])
               => /\ \A k \in DOMAIN delivered : delivered[k] <= 1
                  /\ \A k1, k2 \in DOMAIN delivered :
                         (/\ k1[1][1] = k2[1][1] /\ k1[1][2] = k2[1][2]
                          /\ k1[1][3] = k2[1][3])
                         => /\ k1[1][4] = k2[1][4]
                            /\ k1[2] \in {7, 1}
                            /\ (k1[2] = k2[2] => k1 = k2))
    /\ [][\A p \in Procs :
            (/\ program = "yahrzeit"
             /\ pc[p] = "send" /\ pc'[p] = "insert"
             /\ toSend[p][idx[p]].reminderDays = 1)
            => /\ toSend[p][idx[p]].diff = 0
               /\ toSend[p][idx[p]].observed - today[p] \in {0, 1}]_vars

\* C32 witness: entry a.1 was delivered once for the 7-day window and once
\* for the 1-day window, both rows are in their ledgers, and a later run
\* on a day with diff = 0 has selected nothing for it
C32_Witness ==
    /\ program = "yahrzeit"
    /\ Count(delivered, <<<<"a", 1, 1, KeyA1>>, 7>>) = 1
    /\ Count(delivered, <<<<"a", 1, 1, KeyA1>>, 1>>) = 1
    /\ \E r \in Range(yahrzeit_sent7) : RowIdentity(r) = <<"a", 1, 1, KeyA1>>
    /\ \E r \in Range(yahrzeit_sent1) : RowIdentity(r) = <<"a", 1, 1, KeyA1>>
    /\ JustSelected(1)
    /\ today[1] = HebYearLen
    /\ OfSlot(toSend[1], "a", 1) = <<>>

\* C33: in every invocation of either program at most one candidate has
\* been accepted by the transport while its ledger row or its line of the
\* sent log is still to be written; and over the runs, the deliveries that
\* repeat an earlier delivery (of runs without --force) are no more than the
\* faults (a kill, a failed INSERT) that have happened
C33_OneUnrecordedDelivery ==
    /\ \A p \in Procs :
           Cardinality({k \in DOMAIN status[p] : status[p][k] = "sent"}) <= 1
    /\ LET counted == {k \in DOMAIN delivered : Len(k) = 4 => ~k[4]}
           repeats == UNION { {<<k, i>> : i \in 2..delivered[k]} : k \in counted }
       IN  Cardinality(repeats) <= faults

\* C33 witness: a message was delivered by a run that ended before its row
\* was written, the next run delivered it again, and its row is due
C33_Witness ==
    /\ faults = 1
    /\ \E p \in Procs :
           /\ pc[p] \in {"insert", "w_log"}
           /\ status[p][idx[p]] = "sent"
           /\ \E k \in DOMAIN delivered : delivered[k] = 2

\* C35: in the week (Sunday to Saturday) of any day, whatever holidays fall
\* on its Tuesday, Wednesday and Thursday, shouldSendEmailToday is true on
\* at most one day; an invocation without --force that goes on runs on that
\* day
C35_OneSendDayPerWeek ==
    LET sunday == now - DayOfWeek(now)
        sendDays == {d \in sunday..(sunday + DaysPerWeek - 1) : shouldSendEmailToday(d)}
    IN  program = "weekly" =>
          /\ Cardinality(sendDays) <= 1
          /\ (pc[1] = "w_subs" /\ ~argv[1].force) => sendDays = {now}

\* C35 witness: an invocation without --force goes on on a Wednesday whose
\* Thursday is a holiday and whose Tuesday is none
C35_Witness ==
    /\ pc[1] = "w_subs" /\ ~argv[1].force
    /\ DayOfWeek(now) = 3
    /\ ~getChagOnDate(now - 1) /\ getChagOnDate(now + 1)

\* C36: every occurrence of an entry that is observed 0 to 6 days after
\* today, in whatever Hebrew year that day lies, and is neither opted out of
\* nor in the 7-day ledger, is among the candidates selected
C36_NoneMissedAtYearEnd ==
    JustSelected(1) =>
        \A i \in DOMAIN rows[1] :
            \A num \in 1..getMaxYahrzeitId(rows[1][i].contents),
               h \in 0..((MaxSelectDay \div HebYearLen) + 2) :
                LET row == rows[1][i]
                    info0 == getYahrzeitDetailForId(row.contents, num)
                    observed == ObservedDate(info0.type, h, info0.day)
                IN  (/\ info0.t # "null"
                     /\ observed # NoDate
                     /\ observed - today[1] \in 0..6
                     /\ <<row.id, 0>> \notin optout[1]
                     /\ ~skipOptOut(row.id, info0, optout[1])
                     /\ <<row.id, num, h>> \notin sent7[1]
                     /\ <<row.id, num, h, info0.hash>> \notin sent7[1])
                    => \E k \in DOMAIN toSend[1] :
                           /\ toSend[1][k].id = row.id
                           /\ toSend[1][k].num = num
                           /\ toSend[1][k].hyear = h
                           /\ toSend[1][k].observed = observed

\* C36 witness: six days before the end of a Hebrew year, the occurrence on
\* the first day of the next year is selected
C36_Witness ==
    /\ JustSelected(1)
    /\ today[1] % HebYearLen = HebYearLen - 6
    /\ \E k \in DOMAIN toSend[1] :
           /\ toSend[1][k].hyear = HebYear(today[1]) + 1
           /\ toSend[1][k].observed = today[1] + 6

\* C37: the hash of every candidate is the hash of the date of its entry
\* (moved on by a day for an entry after sunset) and of its kind, and it is
\* the hash the same entry has in the selections of the days one Hebrew
\* year earlier and later, with or without --date
C37_KeyOfEntryInEveryCycle ==
    JustSelected(1) =>
        \A k \in DOMAIN toSend[1] :
            LET c == toSend[1][k]
                kind == CASE c.type = "Yahrzeit" -> <<"Y">>
                          [] c.type = "Birthday" -> <<"B">>
                          [] c.type = "Anniversary" -> <<"A">>
                          [] OTHER -> <<"O">>
            IN  /\ c.hash = murmur32HexSync(FormatDate(c.day) \o <<"-">> \o kind)
                /\ \A t \in {today[1] - HebYearLen, today[1] + HebYearLen},
                      m \in BOOLEAN :
                       \A c2 \in Range(loadSubsFromDb(rows[1], {}, {}, {},
                                                      [day |-> t, midnight |-> m])) :
                           (c2.id = c.id /\ c2.num = c.num) => c2.hash = c.hash

\* C37 witness: entry a.1 is selected for Hebrew year 2, and the selection
\* of the day one Hebrew year earlier has it for year 1, under KeyA1 both
\* times
C37_Witness ==
    /\ JustSelected(1)
    /\ \E k \in DOMAIN toSend[1] :
           /\ toSend[1][k].id = "a" /\ toSend[1][k].num = 1
           /\ toSend[1][k].hyear = 2 /\ toSend[1][k].hash = KeyA1
    /\ \E c2 \in Range(loadSubsFromDb(rows[1], {}, {}, {},
                                       [day |-> today[1] - HebYearLen,
                                        midnight |-> FALSE])) :
           /\ c2.id = "a" /\ c2.num = 1 /\ c2.hyear = 1 /\ c2.hash = KeyA1

\* C38 as stated: the compaction of the stored payloads changes no entry for
\* the loader: for every subscription and every slot, getYahrzeitDetailForId
\* gives the same result (no entry, or the same date after the sunset shift,
\* the same kind and the same key) on the payload the migration wrote as on
\* the payload it read
C38_CompactionPreservesEntries ==
    [][yahrzeit' # yahrzeit =>
         \A k \in DOMAIN yahrzeit :
           LET before == yahrzeit[k].contents
               after == yahrzeit'[k].contents
               slots == 1..(IF getMaxYahrzeitId(before) > getMaxYahrzeitId(after)
                            THEN getMaxYahrzeitId(before)
                            ELSE getMaxYahrzeitId(after))
           IN  yahrzeit[k].typeof_contents = "object" =>
                 \A n \in slots : getYahrzeitDetailForId(after, n)
                                    = getYahrzeitDetailForId(before, n)]_vars

\* what the loop does for the message has been done: the row of a bounce or
\* complaint is in hebcal_shabbat_bounce, the subscriber of an unsubscribe
\* request is unsubscribed or, when there is none, the error mail has gone out
Handled(q, message) ==
    IF ~Acted(q, message) THEN message.Body \in {"", "json"}
    ELSE IF q = "bounce"
    THEN \E k \in DOMAIN hebcal_shabbat_bounce :
            hebcal_shabbat_bounce[k] = BounceRow(message)
    ELSE LET found == SelectSeq(hebcal_shabbat_email, LAMBDA r :
                         IF message.emailId # "" THEN r.email_id = message.emailId
                         ELSE r.email_address = message.address)
         IN  IF found = <<>>
             THEN Count(delivered, <<"Unable to process your message",
                                     message.address>>) > 0
             ELSE found[1].email_status = "unsubscribed"

\* C39: a step that deletes messages from a queue deletes messages of the
\* batch received from that queue, after the loop has gone through the whole
\* batch without an exception and with every message of it handled; a step
\* in which the processing of a message throws deletes nothing and fails the
\* run, and after it the whole batch is still in the queue
C39_DeletedOnlyAfterBatch ==
    /\ [][\A q \in {"unsub", "bounce"} :
            sqsQueue'[q] # sqsQueue[q] =>
              /\ q = queueURL
              /\ sqsQueue'[q] \subseteq sqsQueue[q]
              /\ (sqsQueue[q] \ sqsQueue'[q]) \subseteq Range(Messages)
              /\ msgIndex > Len(Messages)
              /\ \A j \in DOMAIN Messages : Handled(q, Messages[j])]_vars
    /\ [][(qpc = "loop" /\ msgIndex <= Len(Messages) /\ qpc' # "loop") =>
            (qpc' = "failed" /\ sqsQueue' = sqsQueue)]_vars
    /\ []((qpc = "failed" /\ msgIndex \in DOMAIN Messages) =>
            Range(Messages) \subseteq sqsQueue[queueURL])

\* a later run has received again a batch of two whose first message was
\* handled by the run in which the second one threw
C39_Witness ==
    /\ qpc = "loop"
    /\ msgIndex = 1
    /\ Len(Messages) = 2
    /\ faults = 1
    /\ now = StartDay + 2
    /\ Acted(queueURL, Messages[1]) /\ Handled(queueURL, Messages[1])
    /\ Acted(queueURL, Messages[2]) /\ ~Handled(queueURL, Messages[2])

\* C31 as stated: the cache of getSubjectAndBody is an optimization only:
\* whenever a subscriber's message is about to be composed, what
\* getSubjectAndBody returns with the cache as it is equals what
\* genSubjectAndBody computes for that subscriber
C31_CacheReturnsWhatIsComputed ==
    \A p \in Procs :
        pc[p] = "w_mail" =>
          getSubjectAndBody(cfgs[p][idx[p]], prevCfg[p], prevSubjAndBody[p],
                            today[p]).subjAndBody
            = genSubjectAndBody(cfgs[p][idx[p]], today[p])

\* The occurrences the claim is about: what loadSubsFromDb selects from the
\* rows with a payload, with no opt-out and empty ledgers, on a day of the
\* runs that is neither a Saturday nor a major holiday.  Every one of them
\* has been sent, and recorded on a day of its range
AllDueSent ==
    LET good == SelectSeq(yahrzeit, LAMBDA r :
                    r.sub_status = "active" /\ r.typeof_contents = "object")
        days == {d \in FirstDailyDay..(FirstDailyDay + MaxDailyDays) :
                    ~getChagOnDate(d) /\ DayOfWeek(d) # 6}
        DueOccurrences ==
            UNION { Range(loadSubsFromDb(good, {}, {}, {},
                                         [day |-> d, midnight |-> FALSE])) :
                    d \in days }
    IN  \A c \in DueOccurrences :
            /\ Count(delivered, <<Identity(c), 7>>)
                 + Count(delivered, <<Identity(c), 1>>) > 0
            /\ \E w \in {7, 1} : \E k \in DOMAIN Ledger(w) :
                  /\ RowIdentity(Ledger(w)[k]) = Identity(c)
                  /\ Ledger(w)[k].sent_date \in (c.observed - 7)..c.observed

C10_NoDoubleSend ==
    (program = "yahrzeit" /\ faults = 0) =>
        \A k \in DOMAIN delivered : delivered[k] <= 1

====
